---- MODULE Spec2Model ----
(***************************************************************************)
(* Model of the chart server's generation module (utils/generate.ts):      *)
(* the persistence path generateChartUrl -> generateChartSvgLocally, the   *)
(* dispatcher and document assembler generateSvgContent, the layout        *)
(* engines and generateMap; of the command line entry point (index.ts);    *)
(* and of the SVG-to-PNG conversion script.  JavaScript values are tagged  *)
(* records, JavaScript numbers are exact rationals extended with NaN and   *)
(* +/-Infinity, markup is a sequence of element records in emission order. *)
(***************************************************************************)
EXTENDS Integers, Sequences, FiniteSets, TLC

VARIABLES
    now,        \* Date.now(), in milliseconds
    dirExists,  \* existsSync(outputDir)
    fs,         \* the files of the output directory: path -> content
    cur,        \* the generateChartUrl call in progress (its locals and position)
    calls,      \* the finished generateChartUrl calls, in completion order
    req,        \* the render request under study
    renders,    \* the finished generateSvgContent calls, in call order
    cli,        \* the run of the command line entry point (index.ts)
    conv        \* the run of the SVG-to-PNG conversion script

vars == <<now, dirExists, fs, cur, calls, req, renders, cli, conv>>

----------------------------------------------------------------------------
(* Bounds of the model *)

MaxLen == 2        \* longest data array of a render request
MaxRenders == 3    \* render calls in one behaviour of SpecIdem
MaxCalls == 2      \* generateChartUrl calls in one behaviour of Spec
MaxTime == 2       \* last clock value
MaxPoints == 3     \* longest data array of SpecPie and SpecColumn
MaxLinePoints == 9   \* longest data array of SpecLine

----------------------------------------------------------------------------
(* JavaScript numbers: exact rationals, NaN, +Infinity, -Infinity *)

Abs(i) == IF i < 0 THEN -i ELSE i

RECURSIVE Gcd(_, _)
Gcd(a, b) == IF b = 0 THEN a ELSE Gcd(b, a % b)

NaN == [k |-> "nan"]
Inf(s) == [k |-> "inf", s |-> s]

Fin(n, d) ==
    LET g == Gcd(Abs(n), Abs(d))
        s == IF d < 0 THEN -1 ELSE 1
    IN  [k |-> "fin", n |-> (s * n) \div g, d |-> (s * d) \div g]

Num(i) == [k |-> "fin", n |-> i, d |-> 1]

IsNaN(a) == a.k = "nan"
IsFin(a) == a.k = "fin"
IsInf(a) == a.k = "inf"

Sign(a) ==
    IF a.k = "inf" THEN a.s
    ELSE IF a.n > 0 THEN 1 ELSE IF a.n < 0 THEN -1 ELSE 0

NNeg(a) ==
    IF IsNaN(a) THEN NaN
    ELSE IF IsInf(a) THEN Inf(-a.s)
    ELSE Fin(-a.n, a.d)

NAdd(a, b) ==
    IF IsNaN(a) \/ IsNaN(b) THEN NaN
    ELSE IF IsInf(a) /\ IsInf(b) THEN (IF a.s = b.s THEN a ELSE NaN)
    ELSE IF IsInf(a) THEN a
    ELSE IF IsInf(b) THEN b
    ELSE Fin(a.n * b.d + b.n * a.d, a.d * b.d)

NSub(a, b) == NAdd(a, NNeg(b))

NMul(a, b) ==
    IF IsNaN(a) \/ IsNaN(b) THEN NaN
    ELSE IF IsInf(a) \/ IsInf(b)
         THEN (IF Sign(a) * Sign(b) = 0 THEN NaN ELSE Inf(Sign(a) * Sign(b)))
    ELSE Fin(a.n * b.n, a.d * b.d)

NDiv(a, b) ==
    IF IsNaN(a) \/ IsNaN(b) THEN NaN
    ELSE IF IsInf(a) THEN (IF IsInf(b) THEN NaN
                           ELSE Inf(a.s * (IF Sign(b) < 0 THEN -1 ELSE 1)))
    ELSE IF IsInf(b) THEN Num(0)
    ELSE IF b.n = 0 THEN (IF a.n = 0 THEN NaN ELSE Inf(Sign(a)))
    ELSE Fin(a.n * b.d, a.d * b.n)

\* a < b, a > b, a <= b as JavaScript compares them: false when either is NaN
NLt(a, b) ==
    IF IsNaN(a) \/ IsNaN(b) THEN FALSE
    ELSE IF IsInf(a) THEN (a.s = -1 /\ ~(IsInf(b) /\ b.s = -1))
    ELSE IF IsInf(b) THEN b.s = 1
    ELSE a.n * b.d < b.n * a.d

NGt(a, b) == NLt(b, a)

NEq(a, b) == ~IsNaN(a) /\ ~IsNaN(b) /\ a = b

NLe(a, b) == NLt(a, b) \/ NEq(a, b)

\* Math.max(a, b), Math.min(a, b): NaN when either is NaN
Max2(a, b) == IF IsNaN(a) \/ IsNaN(b) THEN NaN ELSE IF NLt(a, b) THEN b ELSE a
Min2(a, b) == IF IsNaN(a) \/ IsNaN(b) THEN NaN ELSE IF NLt(b, a) THEN b ELSE a

RECURSIVE MathMax(_)
MathMax(s) == IF s = <<>> THEN Inf(-1) ELSE Max2(Head(s), MathMax(Tail(s)))

RECURSIVE MathMin(_)
MathMin(s) == IF s = <<>> THEN Inf(1) ELSE Min2(Head(s), MathMin(Tail(s)))

\* a || b on numbers: 0 and NaN are falsy
OrElse(a, b) == IF IsNaN(a) \/ (IsFin(a) /\ a.n = 0) THEN b ELSE a

\* x.toFixed(1) of a finite number, as a count of tenths (round half up)
FloorDiv(n, d) == IF n >= 0 THEN n \div d ELSE -((-n + d - 1) \div d)
ToFixed1(a) ==
    IF a.n >= 0 THEN FloorDiv(2 * 10 * a.n + a.d, 2 * a.d)
    ELSE -FloorDiv(2 * 10 * (-a.n) + a.d, 2 * a.d)

----------------------------------------------------------------------------
(* JavaScript values *)

Undef == [t |-> "undefined"]
Null == [t |-> "null"]
N(i) == [t |-> "number", v |-> Num(i)]
S(str) == [t |-> "string", v |-> str]
Arr(seq) == [t |-> "array", v |-> seq]
\* an object literal: f maps the names of its own properties to their values
Obj(f) == [t |-> "object", f |-> f]

\* typeof v === 'object' (true of null and of arrays too)
TypeofObject(v) == v.t \in {"object", "array", "null"}

IsArray(v) == v.t = "array"

\* v.name for a value on which property access does not throw
Get(v, name) ==
    IF v.t = "object" /\ name \in DOMAIN v.f THEN v.f[name] ELSE Undef

\* the numerals Number() parses in this model
ParseRange == -60 .. 60

\* Number(v)
ToNumber(v) ==
    CASE v.t = "number" -> v.v
      [] v.t = "null" -> Num(0)
      [] v.t = "string" ->
            IF v.v = "" THEN Num(0)
            ELSE IF \E i \in ParseRange : ToString(i) = v.v
                 THEN Num(CHOOSE i \in ParseRange : ToString(i) = v.v)
                 ELSE NaN
      [] v.t = "array" ->
            IF v.v = <<>> THEN Num(0) ELSE NaN
      [] OTHER -> NaN

\* String(v) for the values used as labels
StringOf(v) ==
    CASE v.t = "string" -> v.v
      [] v.t = "number" ->
            IF IsFin(v.v) /\ v.v.d = 1 THEN ToString(v.v.n)
            ELSE IF IsNaN(v.v) THEN "NaN" ELSE "number"
      [] v.t = "null" -> "null"
      [] v.t = "undefined" -> "undefined"
      [] OTHER -> "[object Object]"

\* the truthiness of v, as && and || and if test it
Truthy(v) ==
    CASE v.t \in {"undefined", "null"} -> FALSE
      [] v.t = "number" -> ~IsNaN(v.v) /\ ~(IsFin(v.v) /\ v.v.n = 0)
      [] v.t = "string" -> v.v # ""
      [] OTHER -> TRUE

----------------------------------------------------------------------------
(* The type tag: a string as the sequence of its characters *)

UpperChars == << "A", "B", "C", "D", "E", "F", "G", "H", "I", "J", "K", "L", "M",
                 "N", "O", "P", "Q", "R", "S", "T", "U", "V", "W", "X", "Y", "Z" >>
LowerChars == << "a", "b", "c", "d", "e", "f", "g", "h", "i", "j", "k", "l", "m",
                 "n", "o", "p", "q", "r", "s", "t", "u", "v", "w", "x", "y", "z" >>

ToLowerChar(c) ==
    IF \E i \in DOMAIN UpperChars : UpperChars[i] = c
    THEN LowerChars[CHOOSE i \in DOMAIN UpperChars : UpperChars[i] = c]
    ELSE c

ToUpperChar(c) ==
    IF \E i \in DOMAIN LowerChars : LowerChars[i] = c
    THEN UpperChars[CHOOSE i \in DOMAIN LowerChars : LowerChars[i] = c]
    ELSE c

\* type.toLowerCase()
ToLowerCase(str) == [i \in DOMAIN str |-> ToLowerChar(str[i])]

\* type.charAt(0).toUpperCase() + type.slice(1)
Capitalize(str) ==
    IF str = <<>> THEN <<>> ELSE <<ToUpperChar(Head(str))>> \o Tail(str)

ChartSuffix == << " ", "C", "h", "a", "r", "t" >>

----------------------------------------------------------------------------
(* Helpers shared by the layout engines *)

\* the result of a call: a value, or an exception
Returned(v) == [threw |-> FALSE, value |-> v]
Threw(e) == [threw |-> TRUE, error |-> e]

SeqMap(Op(_), s) == [i \in DOMAIN s |-> Op(s[i])]

RECURSIVE Concat(_)
Concat(ss) == IF ss = <<>> THEN <<>> ELSE Head(ss) \o Concat(Tail(ss))

Contains(s, x) == \E i \in DOMAIN s : s[i] = x

IndexOf(s, x) == CHOOSE i \in DOMAIN s : s[i] = x

\* keys kept with the latest key first
RECURSIVE FirstSeenPrepend(_)
FirstSeenPrepend(s) ==
    IF s = <<>> THEN <<>>
    ELSE LET init == FirstSeenPrepend(SubSeq(s, 1, Len(s) - 1))
             last == s[Len(s)]
         IN  IF Contains(init, last) THEN init ELSE <<last>> \o init

\* the keys of a Set / Map filled in the order of s: first-seen order
RECURSIVE FirstSeen(_)
FirstSeen(s) ==
    IF s = <<>> THEN <<>>
    ELSE LET init == FirstSeen(SubSeq(s, 1, Len(s) - 1))
             last == s[Len(s)]
         IN  IF Contains(init, last) THEN init ELSE Append(init, last)

\* property access on an element of data throws a TypeError when the element is
\* null: typeof null === 'object', and every engine then reads a property of it
HasNullItem(data) == \E i \in DOMAIN data : data[i] = Null

TextEl(role, class, text) ==
    [el |-> "text", role |-> role, class |-> class, text |-> text]

NoDataAvailable == <<TextEl("placeholder", "axis-label", "No data available")>>

\* !Array.isArray(data) || data.length === 0
NoData(data) == ~IsArray(data) \/ data.v = <<>>

ChartArea(width, height) ==
    [x |-> Num(80), y |-> Num(60),
     width |-> NSub(width, Num(140)), height |-> NSub(height, Num(140))]

\* the two axis lines every cartesian engine ends with
AxisLines(a) ==
    << [el |-> "line", role |-> "axis", class |-> "axis",
        x1 |-> a.x, y1 |-> a.y, x2 |-> a.x, y2 |-> NAdd(a.y, a.height)],
       [el |-> "line", role |-> "axis", class |-> "axis",
        x1 |-> a.x, y1 |-> NAdd(a.y, a.height),
        x2 |-> NAdd(a.x, a.width), y2 |-> NAdd(a.y, a.height)] >>

\* if (options.axisXTitle) ... if (options.axisYTitle) ...
AxisTitles(options) ==
    (IF Truthy(options.axisXTitle)
     THEN <<TextEl("axis-title", "axis-title", StringOf(options.axisXTitle))>>
     ELSE <<>>)
    \o
    (IF Truthy(options.axisYTitle)
     THEN <<TextEl("axis-title", "axis-title", StringOf(options.axisYTitle))>>
     ELSE <<>>)

----------------------------------------------------------------------------
(* Column / grouped-bar engine *)

ColumnColors == << "#4285f4", "#ea4335", "#fbbc04", "#34a853", "#9aa0a6", "#ff6d01" >>

\* typeof item === 'object' && item.category && item.value !== undefined
ColumnValid(item) ==
    /\ TypeofObject(item)
    /\ Truthy(Get(item, "category"))
    /\ Get(item, "value") # Undef

ColumnRow(item) ==
    [category |-> StringOf(Get(item, "category")),
     group |-> IF Truthy(Get(item, "group")) THEN Get(item, "group") ELSE S("Series 1"),
     value |-> ToNumber(Get(item, "value"))]

ColumnRows(data) == SeqMap(ColumnRow, SelectSeq(data, ColumnValid))

\* groupedData.get(category).has(group)
HasCell(rows, c, g) == \E i \in DOMAIN rows : rows[i].category = c /\ rows[i].group = g

\* the value set first for the pair
CellValueFirst(rows, c, g) ==
    LET first == CHOOSE i \in DOMAIN rows :
                    /\ rows[i].category = c /\ rows[i].group = g
                    /\ \A j \in DOMAIN rows :
                          (rows[j].category = c /\ rows[j].group = g) => i <= j
    IN  rows[first].value

\* groupedData.get(category).get(group): the value set last
CellValue(rows, c, g) ==
    LET last == CHOOSE i \in DOMAIN rows :
                    /\ rows[i].category = c /\ rows[i].group = g
                    /\ \A j \in DOMAIN rows :
                          (rows[j].category = c /\ rows[j].group = g) => j <= i
    IN  rows[last].value

\* let maxValue = 0; ... Math.max(maxValue, value) ...; if (maxValue === 0) maxValue = 1
ColumnMaxValue(rows, cats, grps) ==
    LET cells == {<<c, g>> \in (DOMAIN cats) \X (DOMAIN grps) :
                      HasCell(rows, cats[c], grps[g])}
        vals == {CellValue(rows, cats[p[1]], grps[p[2]]) : p \in cells}
        m == IF \E v \in vals : IsNaN(v) THEN NaN
             ELSE IF \E v \in vals : NLt(Num(0), v)
                  THEN CHOOSE v \in vals : \A w \in vals : NLe(w, v)
                  ELSE Num(0)
    IN  IF m = Num(0) THEN Num(1) ELSE m

\* the rect of one (category, group) pair and, above a tall enough bar, its label
ColumnBar(rows, cats, grps, a, maxValue, ci, gi) ==
    LET value == IF HasCell(rows, cats[ci], grps[gi])
                 THEN OrElse(CellValue(rows, cats[ci], grps[gi]), Num(0))
                 ELSE Num(0)
        categoryWidth == NDiv(a.width, Num(Len(cats)))
        barWidth == NDiv(categoryWidth, NMul(Num(Len(grps)), Fin(6, 5)))
        barHeight == NMul(NDiv(value, maxValue), a.height)
        categoryX == NAdd(a.x, NMul(Num(ci - 1), categoryWidth))
        barX == NAdd(NAdd(categoryX, NMul(Num(gi - 1), barWidth)),
                     NDiv(NSub(categoryWidth, NMul(Num(Len(grps)), barWidth)), Num(2)))
        barY == NSub(NAdd(a.y, a.height), barHeight)
    IN  << [el |-> "rect", role |-> "bar", class |-> "chart-bar",
            x |-> barX, y |-> barY, width |-> barWidth, height |-> barHeight,
            fill |-> ColumnColors[((gi - 1) % Len(ColumnColors)) + 1],
            catIndex |-> ci, groupIndex |-> gi] >>
        \o
        (IF NGt(barHeight, Num(20))
         THEN <<[el |-> "text", role |-> "value-label", class |-> "axis-label",
                 text |-> value, catIndex |-> ci, groupIndex |-> gi]>>
         ELSE <<>>)

ColumnCategory(rows, cats, grps, a, maxValue, ci) ==
    Concat([gi \in DOMAIN grps |-> ColumnBar(rows, cats, grps, a, maxValue, ci, gi)])
    \o <<[el |-> "text", role |-> "category-label", class |-> "axis-label",
          text |-> cats[ci], catIndex |-> ci]>>

\* a legend drawn for any number of groups
ColumnLegendAlways(grps) ==
    Concat([gi \in DOMAIN grps |->
        << [el |-> "rect", role |-> "legend", class |-> "",
            fill |-> ColumnColors[((gi - 1) % Len(ColumnColors)) + 1],
            groupIndex |-> gi],
           [el |-> "text", role |-> "legend", class |-> "legend-text",
            text |-> StringOf(grps[gi]), groupIndex |-> gi] >>])

\* if (groupArray.length > 1) one swatch and one text per group
ColumnLegend(grps) ==
    IF Len(grps) > 1
    THEN Concat([gi \in DOMAIN grps |->
            << [el |-> "rect", role |-> "legend", class |-> "",
                fill |-> ColumnColors[((gi - 1) % Len(ColumnColors)) + 1],
                groupIndex |-> gi],
               [el |-> "text", role |-> "legend", class |-> "legend-text",
                text |-> StringOf(grps[gi]), groupIndex |-> gi] >>])
    ELSE <<>>

generateColumnChart(data, width, height, options) ==
    IF NoData(data) THEN Returned(NoDataAvailable)
    ELSE IF HasNullItem(data.v) THEN Threw("TypeError")
    ELSE
      LET a == ChartArea(width, height)
          rows == ColumnRows(data.v)
          cats == FirstSeen(SeqMap(LAMBDA r : r.category, rows))
          grps == FirstSeen(SeqMap(LAMBDA r : r.group, rows))
          maxValue == ColumnMaxValue(rows, cats, grps)
          bars == Concat([ci \in DOMAIN cats |->
                            ColumnCategory(rows, cats, grps, a, maxValue, ci)])
      IN  Returned(ColumnLegend(grps) \o bars \o AxisLines(a) \o AxisTitles(options))

----------------------------------------------------------------------------
(* Line and area engines *)

\* data.map(item => ...) of the line, area, pie and funnel engines, for one item;
\* first names the property tried before category ("time" for line and area)
LabelValue(item, first) ==
    IF /\ first # ""
       /\ TypeofObject(item)
       /\ Get(item, first) # Undef
       /\ Get(item, "value") # Undef
    THEN [label |-> StringOf(Get(item, first)), value |-> ToNumber(Get(item, "value"))]
    ELSE IF /\ TypeofObject(item)
            /\ Get(item, "category") # Undef
            /\ Get(item, "value") # Undef
    THEN [label |-> StringOf(Get(item, "category")),
          value |-> ToNumber(Get(item, "value"))]
    ELSE [label |-> "Unknown", value |-> OrElse(ToNumber(item), Num(0))]

LinePoints(data) == SeqMap(LAMBDA item : LabelValue(item, "time"), data)

PointValues(points) == SeqMap(LAMBDA p : p.value, points)

\* const range = maxValue - minValue || 1
ValueRange(points) ==
    OrElse(NSub(MathMax(PointValues(points)), MathMin(PointValues(points))), Num(1))

IMax(i, j) == IF i > j THEN i ELSE j

\* x and y of point number index (from 0) of the line and area engines
LineX(points, a, index) ==
    NAdd(a.x, NMul(Fin(index, IMax(Len(points) - 1, 1)), a.width))

LineY(points, a, index) ==
    NSub(NAdd(a.y, a.height),
         NMul(NDiv(NSub(points[index + 1].value, MathMin(PointValues(points))),
                   ValueRange(points)),
              a.height))

\* Math.ceil(n / d) for positive integers
CeilDiv(n, d) == (n + d - 1) \div d

\* a label under every point
AxisLabelAlways(n, index) == index >= 0

\* index % Math.ceil(points.length / 8) === 0
AxisLabelShown(n, index) == index % CeilDiv(n, 8) = 0

\* the path data "M x y L x y ..." through every point
LinePath(points, a) ==
    [i \in DOMAIN points |->
        [cmd |-> IF i = 1 THEN "M" ELSE "L",
         x |-> LineX(points, a, i - 1), y |-> LineY(points, a, i - 1)]]

generateLineChart(data, width, height, options) ==
    IF NoData(data) THEN Returned(NoDataAvailable)
    ELSE IF HasNullItem(data.v) THEN Threw("TypeError")
    ELSE
      LET a == ChartArea(width, height)
          points == LinePoints(data.v)
          pointElements ==
              [i \in DOMAIN points |->
                  [el |-> "circle", role |-> "marker", class |-> "chart-point",
                   cx |-> LineX(points, a, i - 1), cy |-> LineY(points, a, i - 1),
                   fill |-> "#4285f4", index |-> i - 1]]
          labels ==
              Concat([i \in DOMAIN points |->
                  (IF AxisLabelShown(Len(points), i - 1)
                   THEN <<[el |-> "text", role |-> "axis-label", class |-> "axis-label",
                           text |-> points[i].label, x |-> LineX(points, a, i - 1),
                           index |-> i - 1]>>
                   ELSE <<>>)
                  \o <<[el |-> "text", role |-> "value-label", class |-> "axis-label",
                        text |-> points[i].value, x |-> LineX(points, a, i - 1),
                        index |-> i - 1]>>])
      IN  Returned(
            <<[el |-> "path", role |-> "line", class |-> "chart-line",
               stroke |-> "#4285f4", d |-> LinePath(points, a)]>>
            \o pointElements \o labels \o AxisLines(a) \o AxisTitles(options))

generateAreaChart(data, width, height, options) ==
    IF NoData(data) THEN Returned(NoDataAvailable)
    ELSE IF HasNullItem(data.v) THEN Threw("TypeError")
    ELSE
      LET a == ChartArea(width, height)
          points == LinePoints(data.v)
          baseline == NAdd(a.y, a.height)
          areaPath ==
              <<[cmd |-> "M", x |-> a.x, y |-> baseline]>>
              \o [i \in DOMAIN points |->
                    [cmd |-> "L", x |-> LineX(points, a, i - 1),
                     y |-> LineY(points, a, i - 1)]]
              \o <<[cmd |-> "L", x |-> NAdd(a.x, a.width), y |-> baseline],
                   [cmd |-> "Z"]>>
      IN  Returned(
            <<[el |-> "path", role |-> "area", class |-> "chart-area",
               fill |-> "#4285f4", d |-> areaPath],
              [el |-> "path", role |-> "line", class |-> "chart-line",
               stroke |-> "#4285f4", d |-> LinePath(points, a)]>>
            \o AxisLines(a))

----------------------------------------------------------------------------
(* Pie engine: angles are in radians, with Math.PI as the rational Pi *)

Pi == Fin(355, 113)

PieColors == << "#4285f4", "#ea4335", "#fbbc04", "#34a853",
                "#9aa0a6", "#ff6d01", "#ab47bc", "#26c6da" >>

PieSlices(data) == SeqMap(LAMBDA item : LabelValue(item, ""), data)

\* slices.reduce((sum, slice) => sum + slice.value, 0)
RECURSIVE SumValues(_)
SumValues(slices) ==
    IF slices = <<>> THEN Num(0)
    ELSE NAdd(SumValues(SubSeq(slices, 1, Len(slices) - 1)), slices[Len(slices)].value)

PieTotal(slices) == SumValues(slices)

\* if (slice.value <= 0) return;
SliceDrawn(slice) == ~NLe(slice.value, Num(0))

\* the slice angle as a share of half a circle
SliceAngleHalf(slices, i) ==
    NMul(NDiv(slices[i].value, PieTotal(slices)), Pi)

\* const sliceAngle = (slice.value / total) * 2 * Math.PI
SliceAngle(slices, i) ==
    NMul(NMul(NDiv(slices[i].value, PieTotal(slices)), Num(2)), Pi)

\* currentAngle when slice i is reached: -Math.PI / 2 plus the angles drawn so far
RECURSIVE StartAngle(_, _)
StartAngle(slices, i) ==
    IF i = 1 THEN NDiv(NNeg(Pi), Num(2))
    ELSE IF SliceDrawn(slices[i - 1])
         THEN NAdd(StartAngle(slices, i - 1), SliceAngle(slices, i - 1))
         ELSE StartAngle(slices, i - 1)

\* ((slice.value / total) * 100).toFixed(1), as a number
Fixed1(x) == IF IsFin(x) THEN Fin(ToFixed1(x), 10) ELSE x

PiePercentage(slices, i) ==
    Fixed1(NMul(NDiv(slices[i].value, PieTotal(slices)), Num(100)))

PieSlice(slices, i, width, height) ==
    IF ~SliceDrawn(slices[i]) THEN <<>>
    ELSE
      << [el |-> "path", role |-> "slice", class |-> "",
          fill |-> PieColors[((i - 1) % Len(PieColors)) + 1],
          cx |-> NDiv(width, Num(2)), cy |-> NAdd(NDiv(height, Num(2)), Num(20)),
          r |-> NDiv(Min2(width, height), Num(4)),
          startAngle |-> StartAngle(slices, i),
          sliceAngle |-> SliceAngle(slices, i),
          endAngle |-> NAdd(StartAngle(slices, i), SliceAngle(slices, i)),
          largeArcFlag |-> IF NGt(SliceAngle(slices, i), Pi) THEN 1 ELSE 0,
          index |-> i - 1] >>
      \o
      (IF NGt(SliceAngle(slices, i), Fin(1, 5))
       THEN <<[el |-> "text", role |-> "percentage", class |-> "axis-label",
               fill |-> "white", text |-> PiePercentage(slices, i),
               labelAngle |-> NAdd(StartAngle(slices, i),
                                   NDiv(SliceAngle(slices, i), Num(2))),
               index |-> i - 1]>>
       ELSE <<>>)

PieLegend(slices, i) ==
    IF ~SliceDrawn(slices[i]) THEN <<>>
    ELSE << [el |-> "rect", role |-> "legend", class |-> "",
             fill |-> PieColors[((i - 1) % Len(PieColors)) + 1], index |-> i - 1],
            [el |-> "text", role |-> "legend", class |-> "legend-text",
             text |-> <<slices[i].label, slices[i].value>>, index |-> i - 1] >>

generatePieChart(data, width, height, options) ==
    IF NoData(data) THEN Returned(NoDataAvailable)
    ELSE IF HasNullItem(data.v) THEN Threw("TypeError")
    ELSE
      LET slices == PieSlices(data.v)
      IN  IF NLe(PieTotal(slices), Num(0))
          THEN Returned(<<TextEl("placeholder", "axis-label",
                                 "No valid data for pie chart")>>)
          ELSE Returned(
                 Concat([i \in DOMAIN slices |-> PieSlice(slices, i, width, height)])
                 \o Concat([i \in DOMAIN slices |-> PieLegend(slices, i)]))

----------------------------------------------------------------------------
(* Scatter engine; rnd[i] is the value Math.random() returns for item i *)

\* typeof item === 'object' && item.x !== undefined && item.y !== undefined
HasXY(item) ==
    TypeofObject(item) /\ Get(item, "x") # Undef /\ Get(item, "y") # Undef

ScatterX(data, a, i) ==
    IF HasXY(data[i])
    THEN NAdd(a.x, NMul(NDiv(ToNumber(Get(data[i], "x")), Num(100)), a.width))
    ELSE NAdd(a.x, NMul(Fin(i - 1, Len(data)), a.width))

\* y drawn at random for every point
ScatterYRandom(data, a, i, rnd) ==
    NSub(NAdd(a.y, a.height), NMul(rnd[i], a.height))

ScatterY(data, a, i, rnd) ==
    IF HasXY(data[i])
    THEN NSub(NAdd(a.y, a.height),
              NMul(NDiv(ToNumber(Get(data[i], "y")), Num(100)), a.height))
    ELSE NSub(NAdd(a.y, a.height), NMul(rnd[i], a.height))

generateScatterChart(data, width, height, options, rnd) ==
    IF NoData(data) THEN Returned(NoDataAvailable)
    ELSE IF HasNullItem(data.v) THEN Threw("TypeError")
    ELSE
      LET a == ChartArea(width, height)
      IN  Returned(
            [i \in DOMAIN data.v |->
                [el |-> "circle", role |-> "point", class |-> "chart-point",
                 cx |-> ScatterX(data.v, a, i), cy |-> ScatterY(data.v, a, i, rnd),
                 fill |-> "#4285f4", index |-> i - 1]]
            \o AxisLines(a))

----------------------------------------------------------------------------
(* Radar engine *)

RadarColors == << "#4285f4", "#ea4335", "#fbbc04", "#34a853" >>

\* typeof item === 'object' && item.name && item.group && item.value !== undefined
RadarValid(item) ==
    /\ TypeofObject(item)
    /\ Truthy(Get(item, "name"))
    /\ Truthy(Get(item, "group"))
    /\ Get(item, "value") # Undef

RadarRow(item) ==
    [name |-> StringOf(Get(item, "name")),
     group |-> StringOf(Get(item, "group")),
     value |-> ToNumber(Get(item, "value"))]

RadarRows(data) == SeqMap(RadarRow, SelectSeq(data, RadarValid))

\* groupedData.get(group).get(dimension) || 0
RadarValue(rows, g, dim) ==
    IF \E i \in DOMAIN rows : rows[i].group = g /\ rows[i].name = dim
    THEN LET last == CHOOSE i \in DOMAIN rows :
                        /\ rows[i].group = g /\ rows[i].name = dim
                        /\ \A j \in DOMAIN rows :
                              (rows[j].group = g /\ rows[j].name = dim) => j <= i
         IN  OrElse(rows[last].value, Num(0))
    ELSE Num(0)

\* (index / dimensionArray.length) * 2 * Math.PI - Math.PI / 2
SpokeAngle(n, index) ==
    NSub(NMul(NMul(Fin(index, n), Num(2)), Pi), NDiv(Pi, Num(2)))

generateRadarChart(data, width, height, options) ==
    IF NoData(data) THEN Returned(NoDataAvailable)
    ELSE IF HasNullItem(data.v) THEN Threw("TypeError")
    ELSE
      LET rows == RadarRows(data.v)
          dims == FirstSeen(SeqMap(LAMBDA r : r.name, rows))
          grps == FirstSeen(SeqMap(LAMBDA r : r.group, rows))
          radius == NDiv(Min2(width, height), Num(3))
          grid == [i \in 1 .. 5 |->
                     [el |-> "circle", role |-> "grid", class |-> "",
                      r |-> NDiv(NMul(radius, Num(i)), Num(5))]]
          spokes == Concat([d \in DOMAIN dims |->
                     << [el |-> "line", role |-> "spoke", class |-> "",
                         angle |-> SpokeAngle(Len(dims), d - 1), index |-> d - 1],
                        [el |-> "text", role |-> "dimension-label",
                         class |-> "axis-label", text |-> dims[d],
                         index |-> d - 1] >>])
          polygons == Concat([g \in DOMAIN grps |->
                     << [el |-> "path", role |-> "polygon", class |-> "",
                         fill |-> RadarColors[((g - 1) % Len(RadarColors)) + 1],
                         d |-> [d \in DOMAIN dims |->
                                  [cmd |-> IF d = 1 THEN "M" ELSE "L",
                                   angle |-> SpokeAngle(Len(dims), d - 1),
                                   r |-> NMul(radius,
                                              NDiv(RadarValue(rows, grps[g], dims[d]),
                                                   Num(100)))]],
                         groupIndex |-> g],
                        [el |-> "rect", role |-> "legend", class |-> "",
                         fill |-> RadarColors[((g - 1) % Len(RadarColors)) + 1],
                         groupIndex |-> g],
                        [el |-> "text", role |-> "legend", class |-> "legend-text",
                         text |-> grps[g], groupIndex |-> g] >>])
      IN  IF dims = <<>>
          THEN Returned(<<TextEl("placeholder", "axis-label", "No valid radar data")>>)
          ELSE Returned(grid \o spokes \o polygons)

----------------------------------------------------------------------------
(* Histogram engine *)

\* Math.floor(x)
NFloor(x) == IF IsFin(x) THEN Num(FloorDiv(x.n, x.d)) ELSE x

\* data.map(item => ...).filter(v => !isNaN(v))
HistogramValue(item) ==
    IF TypeofObject(item) /\ Get(item, "value") # Undef
    THEN ToNumber(Get(item, "value"))
    ELSE OrElse(ToNumber(item), Num(0))

HistogramValues(data) ==
    SelectSeq(SeqMap(HistogramValue, data), LAMBDA v : ~IsNaN(v))

\* const bins = options.bins || 10
BinCount(options) == OrElse(ToNumber(options.bins), Num(10))

\* Array(bins) throws a RangeError unless bins is an integer in 0 .. 2^32 - 1
ValidArrayLength(b) == IsFin(b) /\ b.d = 1 /\ b.n >= 0

\* const binWidth = (maxValue - minValue) / bins
BinWidth(values, bins) == NDiv(NSub(MathMax(values), MathMin(values)), Num(bins))

\* Math.min(Math.floor((value - minValue) / binWidth), bins - 1)
BinIndex(values, bins, value) ==
    Min2(NFloor(NDiv(NSub(value, MathMin(values)), BinWidth(values, bins))),
         Num(bins - 1))

\* histogram[index] after values.forEach: an index that is not one of
\* 0 .. bins-1 (NaN) increments no element of the array
Frequency(values, bins, index) ==
    Cardinality({i \in DOMAIN values : BinIndex(values, bins, values[i]) = Num(index)})

Histogram(values, bins) == [b \in 1 .. bins |-> Frequency(values, bins, b - 1)]

RECURSIVE IntMax(_)
IntMax(s) == IF s = <<>> THEN 0 ELSE IMax(Head(s), IntMax(Tail(s)))

HistogramBar(values, bins, a, index) ==
    LET histogram == Histogram(values, bins)
        frequency == histogram[index + 1]
        \* Math.max(...histogram) of an empty array is -Infinity, and
        \* Math.max(-Infinity, 1) is 1
        maxFrequency == IMax(IntMax(histogram), 1)
        barWidth == NDiv(a.width, Num(bins))
        barHeight == NMul(Fin(frequency, maxFrequency), a.height)
    IN  << [el |-> "rect", role |-> "bar", class |-> "",
            x |-> NAdd(a.x, NMul(Num(index), barWidth)),
            y |-> NSub(NAdd(a.y, a.height), barHeight),
            width |-> NSub(barWidth, Num(2)), height |-> barHeight,
            fill |-> "#4285f4", frequency |-> frequency, index |-> index] >>
        \o
        (IF index % CeilDiv(bins, 6) = 0
         THEN <<[el |-> "text", role |-> "bin-label", class |-> "axis-label",
                 text |-> Fixed1(NAdd(MathMin(values),
                                      NMul(Num(index), BinWidth(values, bins)))),
                 index |-> index]>>
         ELSE <<>>)
        \o
        (IF NGt(barHeight, Num(15))
         THEN <<[el |-> "text", role |-> "frequency-label", class |-> "axis-label",
                 text |-> frequency, index |-> index]>>
         ELSE <<>>)

generateHistogramChart(data, width, height, options) ==
    IF NoData(data) THEN Returned(NoDataAvailable)
    ELSE IF HasNullItem(data.v) THEN Threw("TypeError")
    ELSE
      LET a == ChartArea(width, height)
          values == HistogramValues(data.v)
          b == BinCount(options)
      IN  IF values = <<>>
          THEN Returned(<<TextEl("placeholder", "axis-label", "No valid numeric data")>>)
          ELSE IF ~ValidArrayLength(b) THEN Threw("RangeError")
          ELSE Returned(
                 Concat([i \in 1 .. b.n |-> HistogramBar(values, b.n, a, i - 1)])
                 \o AxisLines(a)
                 \o <<TextEl("axis-title", "axis-title", "Value Range"),
                      TextEl("axis-title", "axis-title", "Frequency")>>)

----------------------------------------------------------------------------
(* Dual-axes engine *)

\* options.series && Array.isArray(options.series) && options.categories
SeriesFormat(options) ==
    Truthy(options.series) /\ IsArray(options.series) /\ Truthy(options.categories)

\* options.series.find(s => s.type === kind), then its data, else []
SeriesData(options, kind) ==
    LET ss == options.series.v
    IN  IF \E i \in DOMAIN ss : Get(ss[i], "type") = S(kind)
        THEN Get(ss[CHOOSE i \in DOMAIN ss :
                        /\ Get(ss[i], "type") = S(kind)
                        /\ \A j \in DOMAIN ss : Get(ss[j], "type") = S(kind) => i <= j],
                 "data")
        ELSE Arr(<<>>)

\* a || b || c on values
FirstTruthy(a, b, c) == IF Truthy(a) THEN a ELSE IF Truthy(b) THEN b ELSE c

\* a processedData entry whose bar value falls back to the line value
DualRowBarFromLine(item) ==
    IF TypeofObject(item)
    THEN [category |-> StringOf(FirstTruthy(Get(item, "category"), Get(item, "time"),
                                            S("Unknown"))),
          barValue |-> ToNumber(FirstTruthy(Get(item, "bar"), Get(item, "line"), N(0))),
          lineValue |-> ToNumber(FirstTruthy(Get(item, "line"), Get(item, "value2"),
                                             N(0)))]
    ELSE [category |-> "Unknown", barValue |-> Num(0), lineValue |-> Num(0)]

\* the legacy per-row format: one processedData entry
DualRow(item) ==
    IF TypeofObject(item)
    THEN [category |-> StringOf(FirstTruthy(Get(item, "category"), Get(item, "time"),
                                            S("Unknown"))),
          barValue |-> ToNumber(FirstTruthy(Get(item, "bar"), Get(item, "value"), N(0))),
          lineValue |-> ToNumber(FirstTruthy(Get(item, "line"), Get(item, "value2"),
                                             N(0)))]
    ELSE [category |-> "Unknown", barValue |-> Num(0), lineValue |-> Num(0)]

\* barData, lineData and categories as JavaScript values
DualInput(data, options) ==
    IF SeriesFormat(options)
    THEN [bar |-> SeriesData(options, "column"), line |-> SeriesData(options, "line"),
          categories |-> options.categories]
    ELSE IF IsArray(data) /\ data.v # <<>>
    THEN [bar |-> Arr(SeqMap(LAMBDA item : DualRow(item).barValue, data.v)),
          line |-> Arr(SeqMap(LAMBDA item : DualRow(item).lineValue, data.v)),
          categories |-> Arr(SeqMap(LAMBDA item : DualRow(item).category, data.v))]
    ELSE [bar |-> Arr(<<>>), line |-> Arr(<<>>), categories |-> Arr(<<>>)]

\* Math.round(x) of a finite number
MathRound(x) == IF IsFin(x) THEN NFloor(NAdd(x, Fin(1, 2))) ELSE x

\* x.toFixed(2), as a number
Fixed2(x) ==
    IF IsFin(x)
    THEN Fin(IF x.n >= 0 THEN FloorDiv(2 * 100 * x.n + x.d, 2 * x.d)
             ELSE -FloorDiv(2 * 100 * (-x.n) + x.d, 2 * x.d), 100)
    ELSE x

\* Math.max(...barData, 1)
DualMax(series) == MathMax(Append(series, Num(1)))

\* the five-step tick labels of one axis
DualTicks(maxValue, side) ==
    [i \in 1 .. 6 |->
        [el |-> "text", role |-> side, class |-> "axis-label",
         text |-> IF side = "left-tick"
                  THEN MathRound(NMul(NDiv(maxValue, Num(5)), Num(i - 1)))
                  ELSE Fixed2(NMul(NDiv(maxValue, Num(5)), Num(i - 1))),
         index |-> i - 1]]

DualLegend ==
    << [el |-> "rect", role |-> "legend", class |-> "", fill |-> "#4285f4"],
       [el |-> "text", role |-> "legend", class |-> "legend-text", text |-> "Bars"],
       [el |-> "line", role |-> "legend", class |-> "", stroke |-> "#ea4335"],
       [el |-> "circle", role |-> "legend", class |-> "", fill |-> "#ea4335"],
       [el |-> "text", role |-> "legend", class |-> "legend-text", text |-> "Line"] >>

DualBody(barData, lineData, categories, a, options) ==
    LET maxBarValue == DualMax(barData)
        maxLineValue == DualMax(lineData)
        dataLength == IMax(IMax(Len(barData), Len(lineData)), Len(categories))
        X(i) == NAdd(a.x, NMul(Fin(2 * i - 1, 2), NDiv(a.width, Num(dataLength))))
        barHeight(i) == NMul(NDiv(barData[i], maxBarValue), a.height)
        bars == Concat([i \in 1 .. dataLength |->
                  (IF i <= Len(barData) /\ NGt(barData[i], Num(0))
                   THEN <<[el |-> "rect", role |-> "bar", class |-> "",
                           x |-> X(i), height |-> barHeight(i),
                           y |-> NSub(NAdd(a.y, a.height), barHeight(i)),
                           fill |-> "#4285f4", index |-> i - 1]>>
                        \o (IF NGt(barHeight(i), Num(20))
                            THEN <<[el |-> "text", role |-> "value-label",
                                    class |-> "axis-label", text |-> barData[i],
                                    index |-> i - 1]>>
                            ELSE <<>>)
                   ELSE <<>>)
                  \o
                  (IF i <= Len(categories)
                   THEN <<[el |-> "text", role |-> "category-label",
                           class |-> "axis-label", text |-> categories[i],
                           index |-> i - 1]>>
                   ELSE <<>>)])
        lineY(i) == NSub(NAdd(a.y, a.height),
                         NMul(NDiv(lineData[i], maxLineValue), a.height))
        points == Concat([i \in 1 .. Len(lineData) |->
                  << [el |-> "circle", role |-> "line-point", class |-> "",
                      cx |-> X(i), cy |-> lineY(i), fill |-> "#ea4335",
                      index |-> i - 1],
                     [el |-> "text", role |-> "value-label", class |-> "axis-label",
                      text |-> lineData[i], index |-> i - 1] >>])
        linePath == <<[el |-> "path", role |-> "line", class |-> "",
                       stroke |-> "#ea4335",
                       d |-> [i \in 1 .. Len(lineData) |->
                                [cmd |-> IF i = 1 THEN "M" ELSE "L",
                                 x |-> X(i), y |-> lineY(i)]]]>>
        rightAxis == <<[el |-> "line", role |-> "axis", class |-> "axis",
                        x1 |-> NAdd(a.x, a.width), y1 |-> a.y,
                        x2 |-> NAdd(a.x, a.width), y2 |-> NAdd(a.y, a.height)]>>
        seriesTitle(k) ==
            IF /\ Truthy(options.series) /\ IsArray(options.series)
               /\ Len(options.series.v) >= k
               /\ Truthy(Get(options.series.v[k], "axisYTitle"))
            THEN <<TextEl("axis-title", "axis-title",
                          StringOf(Get(options.series.v[k], "axisYTitle")))>>
            ELSE <<>>
        xTitle == IF Truthy(options.axisXTitle)
                  THEN <<TextEl("axis-title", "axis-title",
                                StringOf(options.axisXTitle))>>
                  ELSE <<>>
    IN  bars \o points \o linePath
        \o <<AxisLines(a)[1]>> \o rightAxis \o <<AxisLines(a)[2]>>
        \o DualTicks(maxBarValue, "left-tick") \o DualTicks(maxLineValue, "right-tick")
        \o seriesTitle(1) \o seriesTitle(2) \o xTitle
        \o DualLegend

generateDualAxesChart(data, width, height, options) ==
    IF ~SeriesFormat(options) /\ IsArray(data) /\ HasNullItem(data.v)
    THEN Threw("TypeError")
    ELSE
      LET in == DualInput(data, options)
      IN  \* barData.length and the spread ...barData throw on undefined
          IF ~IsArray(in.bar) \/ ~IsArray(in.line) \/ ~IsArray(in.categories)
          THEN Threw("TypeError")
          ELSE IF in.bar.v = <<>> /\ in.line.v = <<>>
          THEN Returned(NoDataAvailable)
          ELSE Returned(DualBody(in.bar.v, in.line.v, in.categories.v,
                                 ChartArea(width, height), options))

----------------------------------------------------------------------------
(* Funnel engine *)

FunnelColors == << "#4285f4", "#5bb974", "#fbbc04", "#ea4335", "#9aa0a6", "#ff6d01" >>

FunnelArea(width, height) ==
    [x |-> Num(100), y |-> Num(80),
     width |-> NSub(width, Num(200)), height |-> NSub(height, Num(160))]

FunnelStages(data) == SeqMap(LAMBDA item : LabelValue(item, ""), data)

\* chartArea.width * (stage.value / maxValue)
StageWidth(stages, a, i) ==
    NMul(a.width, NDiv(stages[i].value, MathMax(PointValues(stages))))

\* ((stage.value / stages[index - 1].value) * 100).toFixed(1)
ConversionRate(stages, i) ==
    Fixed1(NMul(NDiv(stages[i].value, stages[i - 1].value), Num(100)))

FunnelStage(stages, a, i) ==
    << IF i = Len(stages)
       THEN [el |-> "rect", role |-> "stage", class |-> "",
             width |-> StageWidth(stages, a, i),
             fill |-> FunnelColors[((i - 1) % Len(FunnelColors)) + 1], index |-> i - 1]
       ELSE [el |-> "polygon", role |-> "stage", class |-> "",
             width |-> StageWidth(stages, a, i),
             nextWidth |-> StageWidth(stages, a, i + 1),
             fill |-> FunnelColors[((i - 1) % Len(FunnelColors)) + 1], index |-> i - 1],
       [el |-> "text", role |-> "stage-label", class |-> "axis-label",
        fill |-> "white", text |-> stages[i].label, index |-> i - 1],
       [el |-> "text", role |-> "stage-value", class |-> "axis-label",
        fill |-> "white", text |-> stages[i].value, index |-> i - 1] >>
    \o
    (IF i > 1
     THEN <<[el |-> "text", role |-> "conversion-rate", class |-> "axis-label",
             text |-> ConversionRate(stages, i), index |-> i - 1]>>
     ELSE <<>>)

generateFunnelChart(data, width, height, options) ==
    IF NoData(data) THEN Returned(NoDataAvailable)
    ELSE IF HasNullItem(data.v) THEN Threw("TypeError")
    ELSE
      LET a == FunnelArea(width, height)
          stages == FunnelStages(data.v)
      IN  Returned(Concat([i \in DOMAIN stages |-> FunnelStage(stages, a, i)]))

----------------------------------------------------------------------------
(* Dispatcher and document assembler *)

TagColumn == << "c", "o", "l", "u", "m", "n" >>
TagBar == << "b", "a", "r" >>
TagLine == << "l", "i", "n", "e" >>
TagPie == << "p", "i", "e" >>
TagArea == << "a", "r", "e", "a" >>
TagScatter == << "s", "c", "a", "t", "t", "e", "r" >>
TagRadar == << "r", "a", "d", "a", "r" >>
TagFunnel == << "f", "u", "n", "n", "e", "l" >>
TagDualAxes == << "d", "u", "a", "l", "-", "a", "x", "e", "s" >>
TagHistogram == << "h", "i", "s", "t", "o", "g", "r", "a", "m" >>

\* the switch without the cases 'dual-axes' and 'histogram'
DispatchEarlier(type) ==
    LET tag == ToLowerCase(type)
    IN  CASE tag = TagBar \/ tag = TagColumn -> "generateColumnChart"
          [] tag = TagLine -> "generateLineChart"
          [] tag = TagPie -> "generatePieChart"
          [] tag = TagArea -> "generateAreaChart"
          [] tag = TagScatter -> "generateScatterChart"
          [] tag = TagRadar -> "generateRadarChart"
          [] tag = TagFunnel -> "generateFunnelChart"
          [] OTHER -> "generateColumnChart"

\* the switch of generateSvgContent: the engine that renders the type
Dispatch(type) ==
    LET tag == ToLowerCase(type)
    IN  CASE tag = TagBar \/ tag = TagColumn -> "generateColumnChart"
          [] tag = TagLine -> "generateLineChart"
          [] tag = TagPie -> "generatePieChart"
          [] tag = TagArea -> "generateAreaChart"
          [] tag = TagScatter -> "generateScatterChart"
          [] tag = TagRadar -> "generateRadarChart"
          [] tag = TagFunnel -> "generateFunnelChart"
          [] tag = TagDualAxes -> "generateDualAxesChart"
          [] tag = TagHistogram -> "generateHistogramChart"
          [] OTHER -> "generateColumnChart"

\* the style block: the properties each class sets
StyleBlock ==
    [c \in {"chart-title", "axis-label", "axis-title", "chart-bar", "chart-line",
            "chart-point", "chart-area", "axis", "legend-text"} |->
        CASE c = "chart-title" ->
                {"font-family", "font-size", "font-weight", "text-anchor", "fill"}
          [] c = "axis-label" -> {"font-family", "font-size", "fill"}
          [] c = "axis-title" -> {"font-family", "font-size", "font-weight", "fill"}
          [] c = "chart-bar" -> {"stroke", "stroke-width"}
          [] c = "chart-line" -> {"fill", "stroke-width"}
          [] c = "chart-point" -> {"stroke-width"}
          [] c = "chart-area" -> {"fill-opacity"}
          [] c = "axis" -> {"stroke", "stroke-width"}
          [] c = "legend-text" -> {"font-family", "font-size", "fill"}]

FooterNotice == "Generated locally - No remote uploads"

\* options.width || 800, options.height || 600
WidthOf(options) == IF Truthy(options.width) THEN options.width.v ELSE Num(800)
HeightOf(options) == IF Truthy(options.height) THEN options.height.v ELSE Num(600)

\* the title without the upper-casing of the first letter
TitleOfAsTyped(type, options) ==
    IF Truthy(options.title) THEN [s |-> options.title.v, c |-> <<>>]
    ELSE [s |-> "", c |-> type \o ChartSuffix]

\* options.title || `${type.charAt(0).toUpperCase() + type.slice(1)} Chart`:
\* the text is the string s followed by the characters c
TitleOf(type, options) ==
    IF Truthy(options.title) THEN [s |-> options.title.v, c |-> <<>>]
    ELSE [s |-> "", c |-> Capitalize(type) \o ChartSuffix]

\* options.data || []
DataOf(options) == IF Truthy(options.data) THEN options.data ELSE Arr(<<>>)

\* the chartElements of the switch
ChartElements(type, options, rnd) ==
    LET data == DataOf(options)
        width == WidthOf(options)
        height == HeightOf(options)
        engine == Dispatch(type)
    IN  CASE engine = "generateColumnChart" ->
                generateColumnChart(data, width, height, options)
          [] engine = "generateLineChart" ->
                generateLineChart(data, width, height, options)
          [] engine = "generatePieChart" ->
                generatePieChart(data, width, height, options)
          [] engine = "generateAreaChart" ->
                generateAreaChart(data, width, height, options)
          [] engine = "generateScatterChart" ->
                generateScatterChart(data, width, height, options, rnd)
          [] engine = "generateRadarChart" ->
                generateRadarChart(data, width, height, options)
          [] engine = "generateFunnelChart" ->
                generateFunnelChart(data, width, height, options)
          [] engine = "generateDualAxesChart" ->
                generateDualAxesChart(data, width, height, options)
          [] engine = "generateHistogramChart" ->
                generateHistogramChart(data, width, height, options)

\* the template literal the function returns: the parts of the document in order
Document(width, height, title, chartElements) ==
    << [el |-> "xml-declaration"],
       [el |-> "svg", width |-> width, height |-> height],
       [el |-> "style", rules |-> StyleBlock],
       [el |-> "text", role |-> "title", class |-> "chart-title", text |-> title] >>
    \o chartElements
    \o << [el |-> "text", role |-> "footer", class |-> "axis-label", fill |-> "#888",
           text |-> FooterNotice],
          [el |-> "/svg"] >>

generateSvgContent(type, options, rnd) ==
    LET elements == ChartElements(type, options, rnd)
    IN  IF elements.threw THEN elements
        ELSE Returned(Document(WidthOf(options), HeightOf(options),
                               TitleOf(type, options), elements.value))

----------------------------------------------------------------------------
(* Requests *)

EmptyObject == Obj([n \in {} |-> Undef])

ValidPoint ==
    Obj([category |-> S("A"), value |-> N(10), group |-> S("G1"),
         name |-> S("Speed"), x |-> N(20), y |-> N(30), bar |-> N(4), line |-> N(2)])

\* the entries of a data array: an object every engine accepts, a bare number,
\* null, a string, an object whose value is not numeric, an empty object
RenderItems ==
    { ValidPoint, N(5), Null, S("abc"),
      Obj([category |-> S("C"), value |-> S("abc")]), EmptyObject }

SeqsUpTo(items, n) == UNION {[1 .. k -> items] : k \in 0 .. n}

\* options.data: absent, not an array, or an array of at most MaxLen entries
RenderData ==
    {Undef, S("abc")} \cup {Arr(d) : d \in SeqsUpTo(RenderItems, MaxLen)}

PlainOptions(data) ==
    [data |-> data, width |-> Undef, height |-> Undef, title |-> Undef,
     axisXTitle |-> Undef, axisYTitle |-> Undef,
     bins |-> Undef, series |-> Undef, categories |-> Undef]

ColumnSeries == Obj([type |-> S("column"), data |-> Arr(<<Num(10), Num(20)>>)])
LineSeries == Obj([type |-> S("line"), data |-> Arr(<<Num(1), Num(2)>>)])

OptionVariants(data) ==
    { PlainOptions(data),
      [PlainOptions(data) EXCEPT !.width = N(400), !.height = N(300),
                                 !.title = S("Sales"), !.axisXTitle = S("Quarter"),
                                 !.axisYTitle = S("Amount")],
      [PlainOptions(data) EXCEPT !.width = N(0), !.height = N(0), !.title = S("")],
      [PlainOptions(data) EXCEPT !.bins = N(3)],
      [PlainOptions(data) EXCEPT !.bins = N(-1)],
      [PlainOptions(data) EXCEPT !.series = Arr(<<ColumnSeries, LineSeries>>),
                                 !.categories = Arr(<<"Q1", "Q2">>)],
      [PlainOptions(data) EXCEPT !.series = Arr(<<Obj([type |-> S("column")])>>),
                                 !.categories = Arr(<<"Q1", "Q2">>)] }

SupportedTags ==
    { TagColumn, TagBar, TagLine, TagPie, TagArea, TagScatter, TagRadar,
      TagFunnel, TagDualAxes, TagHistogram }

UnsupportedTags ==
    { << "l", "i", "q", "u", "i", "d" >>, << "s", "a", "n", "k", "e", "y" >>,
      << "t", "r", "e", "e", "m", "a", "p" >> }

MixedCaseTags ==
    { << "P", "i", "e" >>, << "B", "A", "R" >>,
      << "D", "u", "a", "l", "-", "A", "x", "e", "s" >>,
      << "H", "i", "s", "t", "o", "g", "r", "a", "m" >> }

Tags == SupportedTags \cup UnsupportedTags \cup MixedCaseTags

Requests ==
    {[type |-> t, options |-> o] :
        t \in Tags, o \in UNION {OptionVariants(d) : d \in RenderData}}

\* the values Math.random() returns in this model
RandomValues == {Num(0), Fin(1, 2)}

\* one value of Math.random() for each entry of the data array
RandomDraws(options) ==
    [1 .. (IF IsArray(DataOf(options)) THEN Len(DataOf(options).v) ELSE 0)
        -> RandomValues]

----------------------------------------------------------------------------
(* The render call on its own *)

Idle == [pc |-> "idle"]
NoFiles == [p \in {} |-> Undef]

RenderEntry(r, rnd) ==
    [type |-> r.type, options |-> r.options, engine |-> Dispatch(r.type),
     result |-> generateSvgContent(r.type, r.options, rnd)]

InitRender ==
    /\ req \in Requests
    /\ renders = <<>>
    /\ cli = Idle /\ conv = Idle
    /\ now = 0 /\ dirExists = TRUE /\ fs = NoFiles /\ cur = Idle /\ calls = <<>>

\* generateSvgContent(req.type, req.options)
Render ==
    /\ Len(renders) < 1
    /\ \E rnd \in RandomDraws(req.options) :
          renders' = Append(renders, RenderEntry(req, rnd))
    /\ UNCHANGED <<now, dirExists, fs, cur, calls, req, cli, conv>>

SpecRender == InitRender /\ [][Render]_vars

----------------------------------------------------------------------------
(* generateChartUrl -> generateChartSvgLocally: the persistence path.  The     *)
(* function has no await, so a call runs to completion before the next one    *)
(* starts; the clock and the file system are its environment.                 *)

\* process.env.CHART_OUTPUT_DIR || './generated-charts', CHART_OUTPUT_DIR unset
OutputDir == << ".", "generated-charts" >>

\* process.cwd()
Cwd == << "/", "app" >>

\* `${type}_${timestamp}.svg` and `${type}_${timestamp}_error.txt`: two such
\* names are the same string exactly when type, timestamp and suffix agree
Filename(type, timestamp, suffix) ==
    [type |-> type, timestamp |-> timestamp, suffix |-> suffix]

\* path.join(outputDir, filename): the "." segments are dropped
Join(dir, filename) ==
    [dir |-> SelectSeq(dir, LAMBDA seg : seg # "."), file |-> filename]

\* `file://${resolve(filepath)}`
FileUrl(path) ==
    [scheme |-> "file://",
     path |-> [dir |-> IF path.dir # <<>> /\ Head(path.dir) = "/"
                       THEN path.dir ELSE Cwd \o path.dir,
               file |-> path.file]]

\* new Error(`Failed to generate chart SVG: ${errorMessage}`)
Wrapped(errorMessage) ==
    [prefix |-> "Failed to generate chart SVG: ", cause |-> errorMessage]

\* an error that reaches the caller as it was thrown
Raw(errorMessage) == [prefix |-> "", cause |-> errorMessage]

\* writeFileSync(path, content)
WriteFile(files, path, content) ==
    [q \in DOMAIN files \cup {path} |-> IF q = path THEN content ELSE files[q]]

CallRequests ==
    {[type |-> t, options |-> PlainOptions(d)] :
        t \in {TagPie, TagColumn}, d \in {Arr(<<ValidPoint>>), Arr(<<Null>>)}}

SvgPath(c) == Join(OutputDir, Filename(c.type, c.timestamp, ".svg"))
ErrorPath(c) == Join(OutputDir, Filename(c.type, c.timestamp, "_error.txt"))

\* the record of a finished call
Finished(c, outcome, value) ==
    [type |-> c.type, options |-> c.options, timestamp |-> c.timestamp,
     outcome |-> outcome, value |-> value,
     document |-> c.svgContent, svgWritten |-> c.svgWritten,
     svgFile |-> IF c.svgWritten THEN fs[SvgPath(c)] ELSE Undef,
     errorWritten |-> c.errorWritten, attempts |-> c.attempts]

Init ==
    /\ now = 0
    /\ dirExists \in BOOLEAN
    /\ fs = NoFiles
    /\ cur = Idle
    /\ calls = <<>>
    /\ req = [type |-> TagPie, options |-> PlainOptions(Undef)]
    /\ renders = <<>>
    /\ cli = Idle /\ conv = Idle

\* the caller invokes generateChartUrl(type, options)
Invoke ==
    /\ cur.pc = "idle"
    /\ Len(calls) < MaxCalls
    /\ \E r \in CallRequests :
          cur' = [pc |-> "ensureDir", type |-> r.type, options |-> r.options,
                  timestamp |-> -1, svgContent |-> Undef, errorMessage |-> "",
                  svgWritten |-> FALSE, errorWritten |-> FALSE, attempts |-> 0]
    /\ UNCHANGED <<now, dirExists, fs, calls, req, renders, cli, conv>>

\* if (!existsSync(outputDir)) mkdirSync(outputDir, { recursive: true });
\* this is before the try block: a failure of mkdirSync rejects the call as it is
EnsureDir ==
    /\ cur.pc = "ensureDir"
    /\ \/ /\ dirExists
          /\ cur' = [cur EXCEPT !.pc = "stamp"]
          /\ UNCHANGED <<dirExists, calls>>
       \/ /\ ~dirExists
          /\ dirExists' = TRUE
          /\ cur' = [cur EXCEPT !.pc = "stamp"]
          /\ UNCHANGED calls
       \/ /\ ~dirExists
          /\ calls' = Append(calls, Finished(cur, "rejected", Raw("EACCES")))
          /\ cur' = Idle
          /\ UNCHANGED dirExists
    /\ UNCHANGED <<now, fs, req, renders, cli, conv>>

\* const timestamp = Date.now(); const filename = ...; const filepath = ...
Stamp ==
    /\ cur.pc = "stamp"
    /\ cur' = [cur EXCEPT !.pc = "render", !.timestamp = now]
    /\ UNCHANGED <<now, dirExists, fs, calls, req, renders, cli, conv>>

\* const svgContent = generateSvgContent(type, options), inside the try block
RenderStep ==
    /\ cur.pc = "render"
    /\ \E rnd \in RandomDraws(cur.options) :
          LET r == generateSvgContent(cur.type, cur.options, rnd)
          IN  cur' = IF r.threw
                     THEN [cur EXCEPT !.pc = "catch", !.errorMessage = r.error,
                                      !.attempts = @ + 1]
                     ELSE [cur EXCEPT !.pc = "write", !.svgContent = r.value,
                                      !.attempts = @ + 1]
    /\ UNCHANGED <<now, dirExists, fs, calls, req, renders, cli, conv>>

\* writeFileSync(filepath, svgContent) with its failure swallowed
WriteSvgSwallow ==
    /\ cur.pc = "write"
    /\ \/ /\ fs' = WriteFile(fs, SvgPath(cur), cur.svgContent)
          /\ cur' = [cur EXCEPT !.pc = "return", !.svgWritten = TRUE]
       \/ /\ cur' = [cur EXCEPT !.pc = "return"]
          /\ UNCHANGED fs
    /\ UNCHANGED <<now, dirExists, calls, req, renders, cli, conv>>

\* writeFileSync(filepath, svgContent): it writes the file and returns, or it
\* throws before the file is opened, or it throws after the file was opened and
\* leaves a truncated file behind (svgWritten stays FALSE: the call returned no
\* written document)
WriteSvg ==
    /\ cur.pc = "write"
    /\ \/ /\ fs' = WriteFile(fs, SvgPath(cur), cur.svgContent)
          /\ cur' = [cur EXCEPT !.pc = "return", !.svgWritten = TRUE]
       \/ /\ cur' = [cur EXCEPT !.pc = "catch", !.errorMessage = "EACCES"]
          /\ UNCHANGED fs
       \/ /\ fs' = WriteFile(fs, SvgPath(cur), SubSeq(cur.svgContent, 1, 1))
          /\ cur' = [cur EXCEPT !.pc = "catch", !.errorMessage = "ENOSPC"]
    /\ UNCHANGED <<now, dirExists, calls, req, renders, cli, conv>>

\* return `file://${resolve(filepath)}`
Return ==
    /\ cur.pc = "return"
    /\ calls' = Append(calls, Finished(cur, "resolved", FileUrl(SvgPath(cur))))
    /\ cur' = Idle
    /\ UNCHANGED <<now, dirExists, fs, req, renders, cli, conv>>

\* the catch block: write the error file, then throw the wrapped error; when
\* the write of the error file throws, that error leaves the catch block instead
Catch ==
    /\ cur.pc = "catch"
    /\ \/ /\ fs' = WriteFile(fs, ErrorPath(cur), <<"Error generating chart: ",
                                                   cur.errorMessage>>)
          /\ calls' = Append(calls,
                Finished([cur EXCEPT !.errorWritten = TRUE], "rejected",
                         Wrapped(cur.errorMessage)))
       \/ /\ calls' = Append(calls, Finished(cur, "rejected", Raw("ENOSPC")))
          /\ UNCHANGED fs
    /\ cur' = Idle
    /\ UNCHANGED <<now, dirExists, req, renders, cli, conv>>

\* a millisecond passes
Tick ==
    /\ now < MaxTime
    /\ now' = now + 1
    /\ UNCHANGED <<dirExists, fs, cur, calls, req, renders, cli, conv>>

Next ==
    \/ Invoke \/ EnsureDir \/ Stamp \/ RenderStep \/ WriteSvg \/ Return \/ Catch
    \/ Tick

Spec == Init /\ [][Next]_vars

----------------------------------------------------------------------------
(* Repeated render calls, with other render calls in between *)

IdemItems == {ValidPoint, N(5)}

IdemRequests ==
    {[type |-> t, options |-> PlainOptions(Arr(d))] :
        t \in SupportedTags \cup {<< "s", "a", "n", "k", "e", "y" >>},
        d \in SeqsUpTo(IdemItems, MaxLen)}

OtherRequests ==
    { [type |-> TagScatter, options |-> PlainOptions(Arr(<<N(5)>>))],
      [type |-> TagFunnel, options |-> PlainOptions(Arr(<<ValidPoint, N(5)>>))] }

InitIdem ==
    /\ req \in IdemRequests
    /\ renders = <<>>
    /\ cli = Idle /\ conv = Idle
    /\ now = 0 /\ dirExists = TRUE /\ fs = NoFiles /\ cur = Idle /\ calls = <<>>

\* generateSvgContent(req.type, req.options), once more
RenderAgain ==
    /\ Len(renders) < MaxRenders
    /\ \E rnd \in RandomDraws(req.options) :
          renders' = Append(renders, RenderEntry(req, rnd))
    /\ UNCHANGED <<now, dirExists, fs, cur, calls, req, cli, conv>>

\* another invocation of generateSvgContent
RenderOther ==
    /\ Len(renders) < MaxRenders
    /\ \E o \in OtherRequests :
          /\ o # req
          /\ \E rnd \in RandomDraws(o.options) :
                renders' = Append(renders, RenderEntry(o, rnd))
    /\ UNCHANGED <<now, dirExists, fs, cur, calls, req, cli, conv>>

SpecIdem == InitIdem /\ [][RenderAgain \/ RenderOther]_vars

----------------------------------------------------------------------------
(* The pie engine and the column engine on their own inputs *)

PiePoint(label, value) == Obj([category |-> S(label), value |-> N(value)])

PieItems ==
    { PiePoint("Mobile", 45), PiePoint("Desktop", 30), PiePoint("Tablet", 15),
      PiePoint("One", 1), PiePoint("Zero", 0), PiePoint("Loss", -2) }

NonEmptySeqs(items, n) == UNION {[1 .. k -> items] : k \in 1 .. n}

InitPie ==
    /\ req \in {[type |-> TagPie, options |-> PlainOptions(Arr(d))] :
                   d \in NonEmptySeqs(PieItems, MaxPoints)}
    /\ renders = <<>>
    /\ cli = Idle /\ conv = Idle
    /\ now = 0 /\ dirExists = TRUE /\ fs = NoFiles /\ cur = Idle /\ calls = <<>>

SpecPie == InitPie /\ [][Render]_vars

ColumnPoint(category, group, value) ==
    Obj([category |-> S(category), group |-> S(group), value |-> N(value)])

ColumnItems ==
    {ColumnPoint(c, g, v) : c \in {"Q1", "Q2"}, g \in {"Rev", "Cost"}, v \in {10, 20}}

InitColumn ==
    /\ req \in {[type |-> TagColumn, options |-> PlainOptions(Arr(d))] :
                   d \in NonEmptySeqs(ColumnItems, MaxPoints)}
    /\ renders = <<>>
    /\ cli = Idle /\ conv = Idle
    /\ now = 0 /\ dirExists = TRUE /\ fs = NoFiles /\ cur = Idle /\ calls = <<>>

SpecColumn == InitColumn /\ [][Render]_vars

----------------------------------------------------------------------------
(* The histogram engine on its own inputs *)

HistogramItems ==
    { N(1), N(2), N(4), N(7), Obj([value |-> N(4)]), Obj([value |-> S("abc")]) }

HistogramBins == {Undef, N(1), N(2), N(3)}

InitHistogram ==
    /\ req \in {[type |-> TagHistogram,
                 options |-> [PlainOptions(Arr(d)) EXCEPT !.bins = b]] :
                   d \in NonEmptySeqs(HistogramItems, MaxPoints), b \in HistogramBins}
    /\ renders = <<>>
    /\ cli = Idle /\ conv = Idle
    /\ now = 0 /\ dirExists = TRUE /\ fs = NoFiles /\ cur = Idle /\ calls = <<>>

SpecHistogram == InitHistogram /\ [][Render]_vars

----------------------------------------------------------------------------
(* The dual-axes engine on pairs of requests *)

DualBarValues == {<<Num(10), Num(20)>>, <<Num(3), Num(0)>>}
DualLineValues ==
    {<<Num(1), Num(2)>>, <<Num(50), Num(5)>>, <<Num(0), Num(0)>>,
     <<Fin(1, 2), Fin(1, 4)>>}

\* the series / categories shape
DualSeriesRequests ==
    {[type |-> TagDualAxes,
      options |-> [PlainOptions(Undef) EXCEPT
                     !.series = Arr(<<Obj([type |-> S("column"), data |-> Arr(b)]),
                                      Obj([type |-> S("line"), data |-> Arr(l)])>>),
                     !.categories = Arr(<<"Q1", "Q2">>)]] :
        b \in DualBarValues, l \in DualLineValues}

\* the legacy per-row shape
DualLegacyRows ==
    {Obj([category |-> S("Q1"), bar |-> N(b), line |-> N(l)]) :
        b \in {4, 0}, l \in {2, 40}}

DualLegacyRequests ==
    {[type |-> TagDualAxes, options |-> PlainOptions(Arr(d))] :
        d \in NonEmptySeqs(DualLegacyRows, MaxLen)}

DualRequests == DualSeriesRequests \cup DualLegacyRequests

InitDual ==
    /\ req \in DualRequests
    /\ renders = <<>>
    /\ cli = Idle /\ conv = Idle
    /\ now = 0 /\ dirExists = TRUE /\ fs = NoFiles /\ cur = Idle /\ calls = <<>>

\* generateSvgContent(req.type, req.options), then generateSvgContent of any
\* other dual-axes request
RenderDual ==
    /\ Len(renders) < 2
    /\ \E r \in DualRequests :
          /\ Len(renders) = 0 => r = req
          /\ \E rnd \in RandomDraws(r.options) :
                renders' = Append(renders, RenderEntry(r, rnd))
    /\ UNCHANGED <<now, dirExists, fs, cur, calls, req, cli, conv>>

SpecDual == InitDual /\ [][RenderDual]_vars

----------------------------------------------------------------------------
(* The funnel engine on its own inputs *)

InitFunnel ==
    /\ req \in {[type |-> TagFunnel, options |-> PlainOptions(Arr(d))] :
                   d \in NonEmptySeqs(PieItems, MaxPoints)}
    /\ renders = <<>>
    /\ cli = Idle /\ conv = Idle
    /\ now = 0 /\ dirExists = TRUE /\ fs = NoFiles /\ cur = Idle /\ calls = <<>>

SpecFunnel == InitFunnel /\ [][Render]_vars

----------------------------------------------------------------------------
(* The command line entry point (index.ts).  The command line is a sequence *)
(* of options [name, value]; strings are sequences of characters, so that   *)
(* toLowerCase and parseInt are computed; an                                *)
(* environment variable that is unset or empty is the empty sequence (the   *)
(* code reads them with ||, which treats the two alike).                    *)

MaxArgs == 2       \* most options on one command line

Digits == << "0", "1", "2", "3", "4", "5", "6", "7", "8", "9" >>

IsDigit(c) == \E k \in DOMAIN Digits : Digits[k] = c

DigitValue(c) == (CHOOSE k \in DOMAIN Digits : Digits[k] = c) - 1

\* Number.parseInt(str, 10): the leading digits, NaN when there is none
RECURSIVE LeadingDigits(_, _)
LeadingDigits(str, acc) ==
    IF str = <<>> \/ ~IsDigit(Head(str)) THEN acc
    ELSE LeadingDigits(Tail(str), 10 * acc + DigitValue(Head(str)))

ParseInt(str) ==
    IF str = <<>> \/ ~IsDigit(Head(str)) THEN NaN ELSE Num(LeadingDigits(str, 0))

\* the options declared in the parseArgs call
DeclaredOptions == {"transport", "port", "endpoint", "help"}

\* the value of the last occurrence of an option, or its default
RECURSIVE LastValue(_, _, _)
LastValue(argv, name, default) ==
    IF argv = <<>> THEN default
    ELSE IF argv[Len(argv)].name = name THEN argv[Len(argv)].value
    ELSE LastValue(SubSeq(argv, 1, Len(argv) - 1), name, default)

\* a || b on strings, as sequences of characters
OrDefault(a, b) == IF a = <<>> THEN b ELSE a

\* const { values } = parseArgs({ options: {...} })
ParsedValues(argv, env) ==
    [transport |-> LastValue(argv, "transport",
                             OrDefault(env.TRANSPORT, << "s", "t", "d", "i", "o" >>)),
     port |-> LastValue(argv, "port", OrDefault(env.PORT, << "1", "1", "2", "2" >>)),
     endpoint |-> LastValue(argv, "endpoint", <<>>),
     help |-> LastValue(argv, "help", FALSE)]

CliOptions ==
    { [name |-> "transport", value |-> << "s", "s", "e" >>],
      [name |-> "transport", value |-> << "S", "t", "r", "e", "a", "m", "a", "b", "l", "e" >>],
      [name |-> "transport", value |-> << "w", "s" >>],
      [name |-> "port", value |-> << "8", "0", "8", "0" >>],
      [name |-> "port", value |-> << "a", "b", "c" >>],
      [name |-> "endpoint", value |-> << "/", "a", "p", "i" >>],
      [name |-> "help", value |-> TRUE],
      [name |-> "verbose", value |-> TRUE] }

CliEnvironments ==
    [TRANSPORT : {<<>>, << "S", "S", "E" >>, << "s", "t", "r", "e", "a", "m", "a", "b", "l", "e" >>},
     PORT : {<<>>, << "3", "0", "0", "0" >>},
     ENDPOINT : {<<>>, << "/", "c", "u", "s", "t", "o", "m" >>}]

InitCli ==
    /\ cli \in {[pc |-> "start", argv |-> a, env |-> e, events |-> <<>>] :
                   a \in SeqsUpTo(CliOptions, MaxArgs), e \in CliEnvironments}
    /\ conv = Idle
    /\ req = [type |-> TagPie, options |-> PlainOptions(Undef)]
    /\ renders = <<>>
    /\ now = 0 /\ dirExists = TRUE /\ fs = NoFiles /\ cur = Idle /\ calls = <<>>

\* parseArgs: an option that is not declared makes it throw, and the uncaught
\* exception ends the process with status 1
ParseArgs ==
    /\ cli.pc = "start"
    /\ cli' = IF \E k \in DOMAIN cli.argv : cli.argv[k].name \notin DeclaredOptions
              THEN [pc |-> "exited", argv |-> cli.argv, env |-> cli.env,
                    events |-> <<[ev |-> "exit", code |-> 1]>>]
              ELSE [pc |-> "parsed", argv |-> cli.argv, env |-> cli.env,
                    events |-> <<>>, values |-> ParsedValues(cli.argv, cli.env)]
    /\ UNCHANGED <<now, dirExists, fs, cur, calls, req, renders, conv>>

\* if (values.help) { console.log(usage); process.exit(0); }
Help ==
    /\ cli.pc = "parsed"
    /\ cli.values.help
    /\ cli' = [cli EXCEPT !.pc = "exited",
                          !.events = <<[ev |-> "usage"], [ev |-> "exit", code |-> 0]>>]
    /\ UNCHANGED <<now, dirExists, fs, cur, calls, req, renders, conv>>

\* the transport value taken as typed
TransportAsTyped(values) ==
    OrDefault(values.transport, << "s", "t", "d", "i", "o" >>)

\* const transport = values.transport?.toLowerCase() || "stdio"
Transport(values) ==
    OrDefault(ToLowerCase(values.transport), << "s", "t", "d", "i", "o" >>)

\* the server the if / else if / else chain starts
ServerFor(values) ==
    LET transport == Transport(values)
        port == ParseInt(values.port)
    IN  IF transport = << "s", "s", "e" >>
        THEN [ev |-> "runSSEServer",
              endpoint |-> OrDefault(values.endpoint, << "/", "s", "s", "e" >>), port |-> port]
        ELSE IF transport = << "s", "t", "r", "e", "a", "m", "a", "b", "l", "e" >>
        THEN [ev |-> "runHTTPStreamableServer",
              endpoint |-> OrDefault(values.endpoint, << "/", "m", "c", "p" >>), port |-> port]
        ELSE [ev |-> "runStdioServer"]

\* lines 51-67, reached when the help branch is not taken
StartServer ==
    /\ cli.pc = "parsed"
    /\ ~cli.values.help
    /\ cli' = [cli EXCEPT !.pc = "serving",
                          !.events = Append(@, ServerFor(cli.values))]
    /\ UNCHANGED <<now, dirExists, fs, cur, calls, req, renders, conv>>

SpecCli == InitCli /\ [][ParseArgs \/ Help \/ StartServer]_vars

----------------------------------------------------------------------------
(* The SVG-to-PNG conversion script: main, convertSvgToPng and               *)
(* createHtmlFallback.  A directory entry is a record [name, ext]; whether an *)
(* external converter succeeds, and whether the fallback file can be         *)
(* written, is the environment's choice.                                     *)

MaxFiles == 2      \* most entries of the input directory

SvgExt == << ".", "s", "v", "g" >>

DirEntries ==
    { [name |-> "a", ext |-> SvgExt],
      [name |-> "b", ext |-> << ".", "S", "V", "G" >>],
      [name |-> "notes", ext |-> << ".", "t", "x", "t" >>] }

\* readdirSync(inputDir): each entry once
Listings ==
    {l \in SeqsUpTo(DirEntries, MaxFiles) :
        \A i, j \in DOMAIN l : i # j => l[i] # l[j]}

\* the commands of convertSvgToPng, in the order of the converters array
Converters == << "rsvg-convert", "convert", "inkscape" >>

\* readdirSync(inputDir).filter(file => extname(file).toLowerCase() === ".svg")
SvgFiles(listing) == SelectSeq(listing, LAMBDA file : ToLowerCase(file.ext) = SvgExt)

InitConv ==
    /\ conv \in {[pc |-> "start", inputDirExists |-> e, listing |-> l,
                  svgFiles |-> <<>>, file |-> 0, converter |-> 0,
                  success |-> <<>>, failed |-> <<>>, runs |-> <<>>, html |-> {},
                  summary |-> <<>>, exitCode |-> -1] :
                    e \in BOOLEAN, l \in Listings}
    /\ cli = Idle
    /\ req = [type |-> TagPie, options |-> PlainOptions(Undef)]
    /\ renders = <<>>
    /\ now = 0 /\ dirExists = TRUE /\ fs = NoFiles /\ cur = Idle /\ calls = <<>>

\* main, up to the loop: a missing input directory ends the process with
\* status 1, a directory without SVG files ends main
ConvMain ==
    /\ conv.pc = "start"
    /\ conv' = IF ~conv.inputDirExists
               THEN [conv EXCEPT !.pc = "exited", !.exitCode = 1]
               ELSE IF SvgFiles(conv.listing) = <<>>
               THEN [conv EXCEPT !.pc = "done"]
               ELSE [conv EXCEPT !.pc = "convert",
                                 !.svgFiles = SvgFiles(conv.listing),
                                 !.file = 1, !.converter = 1]
    /\ UNCHANGED <<now, dirExists, fs, cur, calls, req, renders, cli>>

\* the next iteration of for (const file of svgFiles), or the end of the loop
NextFile(c) ==
    IF c.file < Len(c.svgFiles)
    THEN [c EXCEPT !.pc = "convert", !.file = @ + 1, !.converter = 1]
    ELSE [c EXCEPT !.pc = "summary"]

\* one iteration of for (const converter of converters): await converter();
\* success returns to main, which pushes the file to results.success; failure
\* continues with the next converter, after the last one with the fallback
RunConverter ==
    /\ conv.pc = "convert"
    /\ \E ok \in BOOLEAN :
          LET run == [file |-> conv.svgFiles[conv.file],
                      converter |-> Converters[conv.converter], ok |-> ok]
              ran == [conv EXCEPT !.runs = Append(@, run)]
          IN  conv' = IF ok
                      THEN NextFile([ran EXCEPT
                                       !.success = Append(@, conv.svgFiles[conv.file])])
                      ELSE IF conv.converter < Len(Converters)
                      THEN [ran EXCEPT !.converter = @ + 1]
                      ELSE [ran EXCEPT !.pc = "fallback"]
    /\ UNCHANGED <<now, dirExists, fs, cur, calls, req, renders, cli>>

\* a fallback whose error ends the loop over the files
HtmlFallbackAborts ==
    /\ conv.pc = "fallback"
    /\ \E written \in BOOLEAN :
          conv' = [conv EXCEPT
                     !.pc = "summary",
                     !.html = IF written THEN @ \cup {conv.svgFiles[conv.file]} ELSE @,
                     !.failed = Append(@, conv.svgFiles[conv.file])]
    /\ UNCHANGED <<now, dirExists, fs, cur, calls, req, renders, cli>>

\* createHtmlFallback: it writes the HTML file and throws, or readFileSync /
\* writeFileSync throws before the file exists; main catches the error and
\* pushes the file to results.failed
HtmlFallback ==
    /\ conv.pc = "fallback"
    /\ \E written \in BOOLEAN :
          conv' = NextFile([conv EXCEPT
                     !.html = IF written THEN @ \cup {conv.svgFiles[conv.file]} ELSE @,
                     !.failed = Append(@, conv.svgFiles[conv.file])])
    /\ UNCHANGED <<now, dirExists, fs, cur, calls, req, renders, cli>>

\* the summary lines printed after the loop
Summary ==
    /\ conv.pc = "summary"
    /\ conv' = [conv EXCEPT !.pc = "done",
                            !.summary = <<Len(conv.success), Len(conv.failed)>>]
    /\ UNCHANGED <<now, dirExists, fs, cur, calls, req, renders, cli>>

SpecConv == InitConv /\ [][ConvMain \/ RunConverter \/ HtmlFallback \/ Summary]_vars

----------------------------------------------------------------------------
(* generateMap -> generateMapSvgLocally.  The function has no await: a call  *)
(* runs to completion; whether mkdirSync and writeFileSync succeed is the     *)
(* environment's choice.                                                      *)

MapTools == {"generate_district_map", "generate_path_map"}

\* the input of the tool: an object, a string, or undefined
MapInputs == {Obj([title |-> S("Tour")]), S("abc"), Undef}

\* JSON.stringify(undefined) is undefined, and undefined.slice throws
StringifyThrows(input) == input = Undef

\* the mapSvg template
MapSvg(tool, input) ==
    << [el |-> "xml-declaration"],
       [el |-> "svg", width |-> Num(800), height |-> Num(600)],
       [el |-> "style",
        rules |-> {"map-title", "map-area", "map-point", "map-label"}],
       [el |-> "text", role |-> "title", class |-> "map-title",
        text |-> <<tool, " - Map Visualization">>],
       [el |-> "rect", role |-> "outline", class |-> "map-area"],
       [el |-> "circle", role |-> "point", class |-> "map-point"],
       [el |-> "text", role |-> "point-label", class |-> "map-label",
        text |-> "Location 1"],
       [el |-> "circle", role |-> "point", class |-> "map-point"],
       [el |-> "text", role |-> "point-label", class |-> "map-label",
        text |-> "Location 2"],
       [el |-> "text", role |-> "footer", class |-> "map-label", fill |-> "#888",
        text |-> FooterNotice],
       [el |-> "text", role |-> "input", class |-> "map-label", fill |-> "#666",
        text |-> input],
       [el |-> "/svg"] >>

\* the result returned by the catch block
MapError(tool, input, errorMessage) ==
    [metadata |-> [tool |-> tool, input |-> input, error |-> errorMessage],
     content |-> <<[type |-> "text",
                    text |-> <<"Error generating map SVG: ", errorMessage>>]>>,
     isError |-> TRUE]

\* the result returned after the file was written
MapSaved(tool, input, localPath) ==
    [metadata |-> [tool |-> tool, input |-> input, localPath |-> localPath],
     content |-> <<[type |-> "text",
                    text |-> <<"Map SVG saved locally: ", localPath>>]>>,
     isError |-> FALSE]

InitMap ==
    /\ now = 0
    /\ dirExists \in BOOLEAN
    /\ fs = NoFiles
    /\ cur = Idle
    /\ calls = <<>>
    /\ req = [type |-> TagPie, options |-> PlainOptions(Undef)]
    /\ renders = <<>>
    /\ cli = Idle /\ conv = Idle

\* one call of generateMap(tool, input)
GenerateMap ==
    /\ Len(calls) < MaxCalls
    /\ \E tool \in MapTools, input \in MapInputs, mkdirOk \in BOOLEAN,
          writeOk \in BOOLEAN :
          LET filepath == Join(OutputDir, Filename(tool, now, ".svg"))
              call == [tool |-> tool, input |-> input, timestamp |-> now]
          IN  IF ~dirExists /\ ~mkdirOk
              THEN \* mkdirSync throws, outside the try block
                   /\ calls' = Append(calls,
                         [call |-> call, outcome |-> "rejected",
                          value |-> Raw("EACCES"), written |-> FALSE])
                   /\ UNCHANGED <<dirExists, fs>>
              ELSE /\ dirExists' = TRUE
                   /\ IF StringifyThrows(input)
                      THEN /\ calls' = Append(calls,
                                 [call |-> call, outcome |-> "resolved",
                                  value |-> MapError(tool, input, "TypeError"),
                                  written |-> FALSE])
                           /\ UNCHANGED fs
                      ELSE IF ~writeOk
                      THEN /\ calls' = Append(calls,
                                 [call |-> call, outcome |-> "resolved",
                                  value |-> MapError(tool, input, "ENOSPC"),
                                  written |-> FALSE])
                           /\ UNCHANGED fs
                      ELSE /\ fs' = WriteFile(fs, filepath, MapSvg(tool, input))
                           /\ calls' = Append(calls,
                                 [call |-> call, outcome |-> "resolved",
                                  value |-> MapSaved(tool, input, FileUrl(filepath)),
                                  written |-> TRUE])
    /\ UNCHANGED <<now, cur, req, renders, cli, conv>>

SpecMap == InitMap /\ [][GenerateMap \/ Tick]_vars

----------------------------------------------------------------------------
(* Line and area charts of up to MaxLinePoints points *)

LineItems ==
    { Obj([time |-> S("Jan"), value |-> N(22)]),
      Obj([category |-> S("Feb"), value |-> N(24)]) }

LineData == UNION {[1 .. k -> LineItems] : k \in 1 .. MaxLinePoints}

InitLine ==
    /\ req \in {[type |-> t, options |-> PlainOptions(Arr(d))] :
                   t \in {TagLine, TagArea}, d \in LineData}
    /\ renders = <<>>
    /\ cli = Idle /\ conv = Idle
    /\ now = 0 /\ dirExists = TRUE /\ fs = NoFiles /\ cur = Idle /\ calls = <<>>

\* generateSvgContent(req.type, req.options): the line and area engines draw
\* no random number
RenderLine ==
    /\ Len(renders) < 1
    /\ renders' = Append(renders, RenderEntry(req, <<>>))
    /\ UNCHANGED <<now, dirExists, fs, cur, calls, req, cli, conv>>

SpecLine == InitLine /\ [][RenderLine]_vars

----------------------------------------------------------------------------
(* Where generateChartUrl and generateMap write, for type / tool strings    *)
(* that may hold path separators.  A string is the sequence of its segments *)
(* between "/" characters: "../pie" is << "..", "pie" >>.                   *)

\* path.normalize of a sequence of segments: "." is dropped and ".." removes
\* the segment before it (it stays at the front of a relative path and is
\* dropped at the root)
RECURSIVE Normalize(_)
Normalize(segs) ==
    IF segs = <<>> THEN <<>>
    ELSE LET init == Normalize(SubSeq(segs, 1, Len(segs) - 1))
             seg == segs[Len(segs)]
         IN  IF seg = "." THEN init
             ELSE IF seg = ".."
             THEN IF init = <<>> \/ init[Len(init)] = ".." THEN Append(init, "..")
                  ELSE IF init[Len(init)] = "/" THEN init
                  ELSE SubSeq(init, 1, Len(init) - 1)
             ELSE Append(init, seg)

\* path.join(outputDir, `${name}_${timestamp}${suffix}`): the segments of name
\* before the last one are directories
JoinPath(dir, name, timestamp, suffix) ==
    [dir |-> Normalize(dir \o SubSeq(name, 1, Len(name) - 1)),
     file |-> Filename(name[Len(name)], timestamp, suffix)]

\* the type and tool strings a caller passes: "pie", "../pie", "../../tmp/pie",
\* "charts/pie", "generate_path_map", "../generate_path_map"
PersistNames ==
    { <<"pie">>, <<"..", "pie">>, <<"..", "..", "tmp", "pie">>, <<"charts", "pie">>,
      <<"generate_path_map">>, <<"..", "generate_path_map">> }

\* the values of CHART_OUTPUT_DIR: unset, "/data", "out"
OutputDirSettings == { <<>>, <<"/", "data">>, <<"out">> }

\* process.env.CHART_OUTPUT_DIR || './generated-charts'
ConfiguredDir(env) == OrDefault(env.CHART_OUTPUT_DIR, OutputDir)

InitPersist ==
    /\ now = 0
    /\ dirExists \in BOOLEAN
    /\ fs = NoFiles
    /\ cur = Idle
    /\ calls = <<>>
    /\ req = [type |-> TagPie, options |-> PlainOptions(Undef)]
    /\ renders = <<>>
    /\ cli \in {[pc |-> "idle", env |-> [CHART_OUTPUT_DIR |-> d]] :
                   d \in OutputDirSettings}
    /\ conv = Idle

\* one call of generateChartUrl (map = FALSE) or generateMap (map = TRUE) to
\* its end: neither function awaits.  Whether mkdirSync succeeds, whether the
\* content can be built, and whether a directory other than the output
\* directory and the working directory exists, is the environment's choice.
Persist ==
    /\ Len(calls) < MaxCalls
    /\ \E name \in PersistNames, map \in BOOLEAN, mkdirOk \in BOOLEAN,
          built \in BOOLEAN, elsewhere \in BOOLEAN :
          LET outputDir == ConfiguredDir(cli.env)
              filepath == JoinPath(outputDir, name, now, ".svg")
              errorFilepath == JoinPath(outputDir, name, now, "_error.txt")
              present(d) == \/ d = Normalize(outputDir)
                            \/ d = <<>>
                            \/ d # Normalize(outputDir) /\ elsewhere
              entry(outcome, written) ==
                  [name |-> name, map |-> map, timestamp |-> now,
                   outputDir |-> outputDir, outcome |-> outcome,
                   written |-> written, dirExisted |-> dirExists \/ mkdirOk]
          IN  IF ~dirExists /\ ~mkdirOk
              THEN /\ calls' = Append(calls, entry("rejected", {}))
                   /\ UNCHANGED <<dirExists, fs>>
              ELSE /\ dirExists' = TRUE
                   /\ IF built /\ present(filepath.dir)
                      THEN /\ fs' = WriteFile(fs, filepath, "svg")
                           /\ calls' = Append(calls, entry("resolved", {filepath}))
                      ELSE IF map
                      THEN \* the catch block of generateMapSvgLocally writes nothing
                           /\ calls' = Append(calls, entry("resolved", {}))
                           /\ UNCHANGED fs
                      ELSE IF present(errorFilepath.dir)
                      THEN /\ fs' = WriteFile(fs, errorFilepath, "error")
                           /\ calls' = Append(calls, entry("rejected", {errorFilepath}))
                      ELSE /\ calls' = Append(calls, entry("rejected", {}))
                           /\ UNCHANGED fs
    /\ UNCHANGED <<now, cur, req, renders, cli, conv>>

SpecPersist == InitPersist /\ [][Persist \/ Tick]_vars

----------------------------------------------------------------------------
(* Properties of the render call (SpecRender) *)

Fragment(doc) == SubSeq(doc, 5, Len(doc) - 2)

IsPlaceholder(fragment) ==
    Len(fragment) = 1 /\ fragment[1].el = "text" /\ fragment[1].role = "placeholder"

\* C1: the render call completes without throwing and returns a non-empty
\* document, for every type and every data array of objects, numbers, strings
\* and nulls, and every options.bins and options.series
C1_RenderNeverThrows ==
    \A i \in DOMAIN renders :
        /\ ~renders[i].result.threw
        /\ renders[i].result.value # <<>>

\* type and tag are the same string up to the case of the letters
SameIgnoringCase(type, tag) ==
    /\ Len(type) = Len(tag)
    /\ \A i \in DOMAIN type :
          \/ type[i] = tag[i]
          \/ \E k \in DOMAIN LowerChars :
                {type[i], tag[i]} = {LowerChars[k], UpperChars[k]}

\* C2 as stated: every returned document begins with the XML declaration, its
\* root svg has width and height options.width and options.height (800 and 600
\* when absent), it contains the title (options.title when given, otherwise the
\* type with its first letter upper-cased followed by " Chart") and the footer
C2_DocumentAsStated ==
    \A i \in DOMAIN renders :
        ~renders[i].result.threw =>
            LET doc == renders[i].result.value
                o == renders[i].options
                type == renders[i].type
            IN  /\ doc[1].el = "xml-declaration"
                /\ doc[2].el = "svg"
                /\ doc[2].width = (IF o.width = Undef THEN Num(800) ELSE o.width.v)
                /\ doc[2].height = (IF o.height = Undef THEN Num(600) ELSE o.height.v)
                /\ \E k \in DOMAIN doc :
                      /\ doc[k].el = "text" /\ doc[k].role = "title"
                      /\ IF o.title = Undef
                         THEN /\ doc[k].text.s = ""
                              /\ Len(doc[k].text.c) = Len(type) + 6
                              /\ SubSeq(doc[k].text.c, 2, Len(type)) = Tail(type)
                              /\ SubSeq(doc[k].text.c, Len(type) + 1, Len(type) + 6)
                                    = << " ", "C", "h", "a", "r", "t" >>
                              /\ SameIgnoringCase(<<doc[k].text.c[1]>>, <<type[1]>>)
                              /\ ~\E n \in DOMAIN LowerChars :
                                    doc[k].text.c[1] = LowerChars[n]
                         ELSE doc[k].text = [s |-> o.title.v, c |-> <<>>]
                /\ \E k \in DOMAIN doc :
                      /\ doc[k].el = "text" /\ doc[k].role = "footer"
                      /\ doc[k].text = "Generated locally - No remote uploads"

\* C2, amended: as C2, where a width or height of 0 counts as absent (800, 600)
\* and an empty title counts as not given
C2_DocumentShape ==
    \A i \in DOMAIN renders :
        ~renders[i].result.threw =>
            LET doc == renders[i].result.value
                o == renders[i].options
                type == renders[i].type
            IN  /\ doc[1].el = "xml-declaration"
                /\ doc[2].el = "svg"
                /\ doc[2].width = (IF o.width \in {Undef, N(0)} THEN Num(800)
                                   ELSE o.width.v)
                /\ doc[2].height = (IF o.height \in {Undef, N(0)} THEN Num(600)
                                    ELSE o.height.v)
                /\ \E k \in DOMAIN doc :
                      /\ doc[k].el = "text" /\ doc[k].role = "title"
                      /\ IF o.title \in {Undef, S("")}
                         THEN /\ doc[k].text.s = ""
                              /\ Len(doc[k].text.c) = Len(type) + 6
                              /\ SubSeq(doc[k].text.c, 2, Len(type)) = Tail(type)
                              /\ SubSeq(doc[k].text.c, Len(type) + 1, Len(type) + 6)
                                    = << " ", "C", "h", "a", "r", "t" >>
                              /\ SameIgnoringCase(<<doc[k].text.c[1]>>, <<type[1]>>)
                              /\ ~\E n \in DOMAIN LowerChars :
                                    doc[k].text.c[1] = LowerChars[n]
                         ELSE doc[k].text = [s |-> o.title.v, c |-> <<>>]
                /\ \E k \in DOMAIN doc :
                      /\ doc[k].el = "text" /\ doc[k].role = "footer"
                      /\ doc[k].text = "Generated locally - No remote uploads"

\* a placeholder document of a sized and titled request has been returned
C2_Witness ==
    \E i \in DOMAIN renders :
        /\ ~renders[i].result.threw
        /\ renders[i].options.title = S("Sales")
        /\ renders[i].options.width = N(400)
        /\ renders[i].result.value[2].width = Num(400)
        /\ IsPlaceholder(Fragment(renders[i].result.value))

\* the engine the dispatcher is to select for a type
ExpectedEngine(type) ==
    CASE SameIgnoringCase(type, << "c", "o", "l", "u", "m", "n" >>)
            -> "generateColumnChart"
      [] SameIgnoringCase(type, << "b", "a", "r" >>) -> "generateColumnChart"
      [] SameIgnoringCase(type, << "l", "i", "n", "e" >>) -> "generateLineChart"
      [] SameIgnoringCase(type, << "p", "i", "e" >>) -> "generatePieChart"
      [] SameIgnoringCase(type, << "a", "r", "e", "a" >>) -> "generateAreaChart"
      [] SameIgnoringCase(type, << "s", "c", "a", "t", "t", "e", "r" >>)
            -> "generateScatterChart"
      [] SameIgnoringCase(type, << "r", "a", "d", "a", "r" >>) -> "generateRadarChart"
      [] SameIgnoringCase(type, << "f", "u", "n", "n", "e", "l" >>)
            -> "generateFunnelChart"
      [] SameIgnoringCase(type, << "d", "u", "a", "l", "-", "a", "x", "e", "s" >>)
            -> "generateDualAxesChart"
      [] SameIgnoringCase(type, << "h", "i", "s", "t", "o", "g", "r", "a", "m" >>)
            -> "generateHistogramChart"
      [] OTHER -> "generateColumnChart"

\* C3: the dispatcher selects the engine by exact match on the lower-cased type
\* (bar and column -> Column, ..., dual-axes -> Dual-Axes, histogram ->
\* Histogram), and every other type is rendered by the Column engine
C3_DispatchTable ==
    \A i \in DOMAIN renders : renders[i].engine = ExpectedEngine(renders[i].type)

\* a mixed-case histogram request has been rendered by the histogram engine
C3_Witness ==
    \E i \in DOMAIN renders :
        /\ renders[i].type = << "H", "i", "s", "t", "o", "g", "r", "a", "m" >>
        /\ renders[i].engine = "generateHistogramChart"
        /\ ~renders[i].result.threw
        /\ \E k \in DOMAIN renders[i].result.value :
              /\ renders[i].result.value[k].el = "text"
              /\ renders[i].result.value[k].role = "axis-title"
              /\ renders[i].result.value[k].text = "Frequency"

\* an entry of data that no engine accepts as a point: a non-numeric string or
\* an object without any of the expected properties
InvalidPoint(item) == item = S("abc") \/ item = EmptyObject

\* the degenerate inputs of C4 for the engine of the request
DegenerateInput(e) ==
    LET data == e.options.data
    IN  /\ e.engine # "generateScatterChart"
        /\ e.options.series = Undef
        /\ \/ data = Undef
           \/ ~IsArray(data)
           \/ data.v = <<>>
           \/ \A k \in DOMAIN data.v : InvalidPoint(data.v[k])

\* C4: degenerate input (data missing, not an array, empty, or made of invalid
\* points only) yields a placeholder text fragment inside a complete document;
\* stated for the calls that return
C4_DegeneratePlaceholder ==
    \A i \in DOMAIN renders :
        (~renders[i].result.threw /\ DegenerateInput(renders[i]))
            => IsPlaceholder(Fragment(renders[i].result.value))

----------------------------------------------------------------------------
(* Properties of generateChartUrl (Spec) *)

\* C5: whenever generateChartUrl fails, the caller receives a rejection whose
\* message is 'Failed to generate chart SVG: <cause>', the error artifact has
\* been written, and no retry is made
C5_FailureWrapped ==
    \A i \in DOMAIN calls :
        calls[i].outcome = "rejected" =>
            /\ calls[i].value.prefix = "Failed to generate chart SVG: "
            /\ calls[i].errorWritten
            /\ calls[i].attempts <= 1

IsCompleteDocument(doc) ==
    /\ doc # Undef
    /\ Len(doc) >= 6
    /\ doc[1].el = "xml-declaration"
    /\ doc[2].el = "svg"
    /\ doc[Len(doc)].el = "/svg"
    /\ doc[Len(doc) - 1].role = "footer"

\* C6: every generateChartUrl call resolves with the file:// URL of the
\* absolute path of '<type>_<timestamp>.svg', which then holds the complete
\* document, or rejects; it never resolves before the SVG has been written and
\* never both writes the SVG and rejects
C6_OneOutcome ==
    /\ \A i \in DOMAIN calls :
          LET e == calls[i]
          IN  /\ e.outcome \in {"resolved", "rejected"}
              /\ e.outcome = "resolved" =>
                    /\ e.value =
                          [scheme |-> "file://",
                           path |-> [dir |-> << "/", "app", "generated-charts" >>,
                                     file |-> [type |-> e.type,
                                               timestamp |-> e.timestamp,
                                               suffix |-> ".svg"]]]
                    /\ e.svgWritten
                    /\ e.svgFile = e.document
                    /\ IsCompleteDocument(e.svgFile)
              /\ e.outcome = "rejected" => ~e.svgWritten
    /\ cur.pc = "return" =>
          /\ cur.svgWritten
          /\ SvgPath(cur) \in DOMAIN fs
          /\ fs[SvgPath(cur)] = cur.svgContent

\* one call has resolved after writing its SVG and another one has rejected
\* after its render threw
C6_Witness ==
    /\ \E i \in DOMAIN calls : calls[i].outcome = "resolved" /\ calls[i].svgWritten
    /\ \E i \in DOMAIN calls :
          calls[i].outcome = "rejected" /\ calls[i].attempts = 1

\* the paths a finished call has written
PathsWritten(e) ==
    (IF e.svgWritten
     THEN {Join(OutputDir, Filename(e.type, e.timestamp, ".svg"))} ELSE {})
    \cup
    (IF e.errorWritten
     THEN {Join(OutputDir, Filename(e.type, e.timestamp, "_error.txt"))} ELSE {})

\* C8: any two generateChartUrl invocations write to distinct file paths
C8_DistinctPaths ==
    \A i, j \in DOMAIN calls :
        i # j => PathsWritten(calls[i]) \cap PathsWritten(calls[j]) = {}

----------------------------------------------------------------------------
(* Repeated calls (SpecIdem) *)

\* the point has no x or no y
LacksXY(item) ==
    ~(item.t = "object" /\ {"x", "y"} \subseteq DOMAIN item.f)

\* a scatter request with a point that lacks x or y
ScatterFallback(e) ==
    /\ SameIgnoringCase(e.type, << "s", "c", "a", "t", "t", "e", "r" >>)
    /\ IsArray(e.options.data)
    /\ \E k \in DOMAIN e.options.data.v : LacksXY(e.options.data.v[k])

\* C7: two render calls with identical input return identical output, whatever
\* other render calls happen before or between them, except for the scatter
\* engine on points that lack x or y
C7_Idempotent ==
    \A i, j \in DOMAIN renders :
        ( /\ renders[i].type = renders[j].type
          /\ renders[i].options = renders[j].options
          /\ ~ScatterFallback(renders[i]) )
            => renders[i].result = renders[j].result

\* a scatter request whose points all have x and y has been rendered twice,
\* with a render of another request in between, with the same document
C7_Witness ==
    /\ Len(renders) = 3
    /\ renders[1].engine = "generateScatterChart"
    /\ renders[1].options.data.v # <<>>
    /\ ~ScatterFallback(renders[1])
    /\ renders[2].type # renders[1].type
    /\ renders[3].type = renders[1].type
    /\ renders[3].options = renders[1].options
    /\ ~renders[1].result.threw
    /\ renders[3].result = renders[1].result

----------------------------------------------------------------------------
(* Properties of the pie engine (SpecPie) *)

WithRole(fragment, role) == SelectSeq(fragment, LAMBDA el : el.role = role)

\* the value property of a point of PieItems or ColumnItems, an integer
RawValue(item) == item.f.value.v.n

RECURSIVE SumRaw(_)
SumRaw(data) == IF data = <<>> THEN 0 ELSE RawValue(Head(data)) + SumRaw(Tail(data))

FullCircle == NMul(Num(2), Pi)

RECURSIVE SumAngles(_)
SumAngles(slices) ==
    IF slices = <<>> THEN Num(0)
    ELSE NAdd(slices[1].sliceAngle, SumAngles(Tail(slices)))

\* n / d rounded to one decimal, as a count of tenths
RoundedTenths(n, d) ==
    CHOOSE t \in 0 .. 1000 : 2 * d * t <= 20 * n + d /\ 20 * n + d < 2 * d * (t + 1)

\* C9: for input values all > 0, slice k has the angle value[k]/total of the
\* full circle, the angles sum to the full circle, the slices follow the input
\* order from 12 o'clock on, and a shown percentage is value/total*100 rounded
\* to one decimal (45, 30, 15 -> 50.0, 33.3, 16.7)
C9_PieAngles ==
    \A i \in DOMAIN renders :
        LET data == renders[i].options.data.v
            total == SumRaw(data)
        IN  (\A k \in DOMAIN data : RawValue(data[k]) > 0) =>
            /\ ~renders[i].result.threw
            /\ LET fragment == Fragment(renders[i].result.value)
                   slices == WithRole(fragment, "slice")
                   shown == WithRole(fragment, "percentage")
               IN  /\ Len(slices) = Len(data)
                   /\ \A k \in DOMAIN slices :
                         /\ slices[k].index = k - 1
                         /\ slices[k].sliceAngle =
                               NMul(Fin(RawValue(data[k]), total), FullCircle)
                         /\ slices[k].startAngle =
                               IF k = 1 THEN NNeg(NDiv(Pi, Num(2)))
                               ELSE NAdd(slices[k - 1].startAngle,
                                         slices[k - 1].sliceAngle)
                   /\ SumAngles(slices) = FullCircle
                   /\ \A k \in DOMAIN shown :
                         shown[k].text =
                            Fin(RoundedTenths(100 * RawValue(data[shown[k].index + 1]),
                                              total), 10)
                   /\ SeqMap(RawValue, data) = <<45, 30, 15>> =>
                         SeqMap(LAMBDA el : el.text, shown)
                            = <<Fin(500, 10), Fin(333, 10), Fin(167, 10)>>

\* the pie of 45, 30, 15 has been rendered with its three percentages
C9_Witness ==
    \E i \in DOMAIN renders :
        /\ SeqMap(RawValue, renders[i].options.data.v) = <<45, 30, 15>>
        /\ ~renders[i].result.threw
        /\ Len(WithRole(Fragment(renders[i].result.value), "percentage")) = 3
        /\ Len(WithRole(Fragment(renders[i].result.value), "slice")) = 3

----------------------------------------------------------------------------
(* Properties of the column engine (SpecColumn) *)

\* the (category, group) cells present in the input
CellsPresent(data) ==
    {<<data[k].f.category, data[k].f.group>> : k \in DOMAIN data}

\* C10: exactly the (category, group) cells present in the input produce a bar
\* element; for an absent pair no rect is emitted
C10_OnlyPresentCells ==
    \A i \in DOMAIN renders :
        ~renders[i].result.threw =>
            Len(WithRole(Fragment(renders[i].result.value), "bar"))
                = Cardinality(CellsPresent(renders[i].options.data.v))

\* the legend texts of a fragment
LegendTexts(fragment) ==
    SelectSeq(fragment, LAMBDA el : el.role = "legend" /\ el.el = "text")

CategoriesOf(data) == {data[k].f.category : k \in DOMAIN data}
GroupsOf(data) == {data[k].f.group : k \in DOMAIN data}

\* C11 as stated: when every point has the same group and the points span C
\* categories, the fragment has exactly C bars and exactly one legend entry,
\* naming that group
C11_OneLegendEntry ==
    \A i \in DOMAIN renders :
        LET data == renders[i].options.data.v
        IN  (~renders[i].result.threw /\ Cardinality(GroupsOf(data)) = 1) =>
               LET fragment == Fragment(renders[i].result.value)
               IN  /\ Len(WithRole(fragment, "bar")) = Cardinality(CategoriesOf(data))
                   /\ Len(LegendTexts(fragment)) = 1
                   /\ S(LegendTexts(fragment)[1].text) \in GroupsOf(data)

\* C11, amended: when every point has the same group and the points span C
\* categories, the fragment has exactly C bars and no legend element; a legend
\* has one entry per group and is drawn only for two or more groups
C11_SingleGroupNoLegend ==
    \A i \in DOMAIN renders :
        LET data == renders[i].options.data.v
        IN  ~renders[i].result.threw =>
               LET fragment == Fragment(renders[i].result.value)
               IN  /\ Cardinality(GroupsOf(data)) = 1 =>
                         /\ Len(WithRole(fragment, "bar"))
                               = Cardinality(CategoriesOf(data))
                         /\ WithRole(fragment, "legend") = <<>>
                   /\ Cardinality(GroupsOf(data)) > 1 =>
                         /\ Len(LegendTexts(fragment)) = Cardinality(GroupsOf(data))
                         /\ \A g \in GroupsOf(data) :
                               \E k \in DOMAIN LegendTexts(fragment) :
                                  S(LegendTexts(fragment)[k].text) = g

\* Q1/Rev/10 and Q2/Rev/20 have been rendered as two bars
C11_Witness ==
    \E i \in DOMAIN renders :
        /\ renders[i].options.data.v
              = <<ColumnPoint("Q1", "Rev", 10), ColumnPoint("Q2", "Rev", 20)>>
        /\ ~renders[i].result.threw
        /\ Len(WithRole(Fragment(renders[i].result.value), "bar")) = 2

----------------------------------------------------------------------------
(* Properties of the histogram engine (SpecHistogram) *)

\* the entry of data is a number or an object whose value is a number
IsNumeric(item) ==
    \/ item.t = "number"
    \/ item.t = "object" /\ "value" \in DOMAIN item.f /\ item.f.value.t = "number"

NumericCount(data) == Cardinality({k \in DOMAIN data : IsNumeric(data[k])})

RECURSIVE SumFrequencies(_)
SumFrequencies(bars) ==
    IF bars = <<>> THEN 0 ELSE Head(bars).frequency + SumFrequencies(Tail(bars))

\* C12: each valid numeric value is counted in exactly one of the bins
\* 0 .. bins-1, so the frequencies sum to the number of valid numeric values,
\* and the maximum is counted in the last bin; equal values and a single value
\* included
C12_FrequenciesSum ==
    \A i \in DOMAIN renders :
        LET data == renders[i].options.data.v
            bins == IF renders[i].options.bins = Undef THEN 10
                    ELSE renders[i].options.bins.v.n
        IN  (~renders[i].result.threw /\ NumericCount(data) > 0) =>
               LET bars == WithRole(Fragment(renders[i].result.value), "bar")
               IN  /\ Len(bars) = bins
                   /\ SumFrequencies(bars) = NumericCount(data)
                   /\ bars[bins].frequency >= 1

----------------------------------------------------------------------------
(* Properties of the dual-axes engine (SpecDual) *)

\* the options with the values of one series blanked: `field` is the property
\* of a legacy row, `kind` the type of a series entry
Blanked(o, field, kind) ==
    [o EXCEPT
       !.data = IF IsArray(o.data)
                THEN Arr([k \in DOMAIN o.data.v |->
                            Obj([o.data.v[k].f EXCEPT ![field] = N(0)])])
                ELSE o.data,
       !.series = IF IsArray(o.series)
                  THEN Arr([k \in DOMAIN o.series.v |->
                              IF o.series.v[k].f.type = S(kind)
                              THEN Obj([o.series.v[k].f EXCEPT
                                          !.data = Arr([n \in DOMAIN @.v |-> Num(0)])])
                              ELSE o.series.v[k]])
                  ELSE o.series]

\* the two requests differ in nothing but the values of the line series
DifferOnlyInLine(e1, e2) ==
    /\ e1.options # e2.options
    /\ Blanked(e1.options, "line", "line") = Blanked(e2.options, "line", "line")

\* the two requests differ in nothing but the values of the bar series
DifferOnlyInBar(e1, e2) ==
    /\ e1.options # e2.options
    /\ Blanked(e1.options, "bar", "column") = Blanked(e2.options, "bar", "column")

\* C13: two requests that differ only in the line values have the same left
\* tick labels and the same bars; two requests that differ only in the bar
\* values have the same right tick labels and the same line points; for the
\* series / categories shape and for the legacy per-row shape
C13_AxesIndependent ==
    \A i, j \in DOMAIN renders :
        LET e1 == renders[i]
            e2 == renders[j]
            f1 == Fragment(e1.result.value)
            f2 == Fragment(e2.result.value)
        IN  /\ ~e1.result.threw /\ ~e2.result.threw
            /\ DifferOnlyInLine(e1, e2) =>
                  /\ WithRole(f1, "left-tick") = WithRole(f2, "left-tick")
                  /\ WithRole(f1, "bar") = WithRole(f2, "bar")
            /\ DifferOnlyInBar(e1, e2) =>
                  /\ WithRole(f1, "right-tick") = WithRole(f2, "right-tick")
                  /\ WithRole(f1, "line-point") = WithRole(f2, "line-point")
                  /\ WithRole(f1, "line") = WithRole(f2, "line")

\* a legacy request and the same request with other line values have both been
\* rendered, with different right tick labels, and so have two series requests
\* with different bar values, with different bars
C13_Witness ==
    /\ Len(renders) = 2
    /\ ~renders[1].result.threw /\ ~renders[2].result.threw
    /\ \/ /\ DifferOnlyInLine(renders[1], renders[2])
          /\ IsArray(renders[1].options.data)
          /\ WithRole(Fragment(renders[1].result.value), "right-tick")
                # WithRole(Fragment(renders[2].result.value), "right-tick")
          /\ WithRole(Fragment(renders[1].result.value), "bar") # <<>>
       \/ /\ DifferOnlyInBar(renders[1], renders[2])
          /\ IsArray(renders[1].options.series)
          /\ WithRole(Fragment(renders[1].result.value), "bar")
                # WithRole(Fragment(renders[2].result.value), "bar")

----------------------------------------------------------------------------
(* Properties of the funnel engine (SpecFunnel) *)

\* text is a finite number of one decimal within 1/20 of exact
RoundedToOneDecimal(text, exact) ==
    /\ IsFin(text) /\ IsFin(exact)
    /\ 10 % text.d = 0
    /\ NLe(NSub(text, exact), Fin(1, 20))
    /\ NLe(NSub(exact, text), Fin(1, 20))

\* C14: a conversion-rate label is emitted for every stage except the first and
\* for no other, and for stage i > 0 its text is value[i] / value[i-1] * 100
\* rounded to one decimal, a finite number for every input
C14_ConversionRates ==
    \A i \in DOMAIN renders :
        LET data == renders[i].options.data.v
        IN  ~renders[i].result.threw =>
               LET labels == WithRole(Fragment(renders[i].result.value),
                                      "conversion-rate")
               IN  /\ Len(labels) = Len(data) - 1
                   /\ \A k \in DOMAIN labels :
                         /\ labels[k].index = k
                         /\ RoundedToOneDecimal(
                               labels[k].text,
                               NDiv(Num(100 * RawValue(data[k + 1])),
                                    Num(RawValue(data[k]))))

----------------------------------------------------------------------------
(* Properties of the command line entry point (SpecCli) *)

FlagGiven(argv, name) == \E k \in DOMAIN argv : argv[k].name = name

\* the value of the flag when given, else of the environment variable when
\* set, else the default
Chosen(argv, name, envValue, default) ==
    IF FlagGiven(argv, name)
    THEN argv[CHOOSE k \in DOMAIN argv :
                 /\ argv[k].name = name
                 /\ \A j \in DOMAIN argv : argv[j].name = name => j <= k].value
    ELSE IF envValue # <<>> THEN envValue
    ELSE default

\* the number a port string denotes
PortNumber(str) ==
    CASE str = << "8", "0", "8", "0" >> -> Num(8080)
      [] str = << "3", "0", "0", "0" >> -> Num(3000)
      [] str = << "1", "1", "2", "2" >> -> Num(1122)
      [] OTHER -> NaN

\* the one server a run is to start
ExpectedServer(argv, env) ==
    LET transport == Chosen(argv, "transport", env.TRANSPORT,
                            << "s", "t", "d", "i", "o" >>)
        port == PortNumber(Chosen(argv, "port", env.PORT, << "1", "1", "2", "2" >>))
        endpoint == Chosen(argv, "endpoint", <<>>, <<>>)
    IN  IF SameIgnoringCase(transport, << "s", "s", "e" >>)
        THEN [ev |-> "runSSEServer", port |-> port,
              endpoint |-> IF endpoint = <<>> THEN << "/", "s", "s", "e" >>
                           ELSE endpoint]
        ELSE IF SameIgnoringCase(transport,
                                 << "s", "t", "r", "e", "a", "m", "a", "b", "l", "e" >>)
        THEN [ev |-> "runHTTPStreamableServer", port |-> port,
              endpoint |-> IF endpoint = <<>> THEN << "/", "m", "c", "p" >>
                           ELSE endpoint]
        ELSE [ev |-> "runStdioServer"]

CliFinished == cli.pc \in {"serving", "exited"}

ServersStarted ==
    SelectSeq(cli.events, LAMBDA e : e.ev \notin {"usage", "exit"})

C16_EndpointFromEnv ==
    (cli.pc = "serving" /\ ~FlagGiven(cli.argv, "endpoint")) =>
        \A k \in DOMAIN cli.events :
            cli.events[k].ev \in {"runSSEServer", "runHTTPStreamableServer"} =>
                cli.events[k].endpoint =
                    IF cli.env.ENDPOINT # <<>> THEN cli.env.ENDPOINT
                    ELSE IF cli.events[k].ev = "runSSEServer"
                         THEN << "/", "s", "s", "e" >>
                         ELSE << "/", "m", "c", "p" >>

----------------------------------------------------------------------------
(* Properties of the conversion script (SpecConv) *)

\* the executions of converters for one file, in the order they happened
RunsOf(file) == SelectSeq(conv.runs, LAMBDA r : r.file = file)

\* the entries of the listing that are SVG files
SvgEntries ==
    {conv.listing[k] : k \in {j \in DOMAIN conv.listing :
        conv.listing[j].ext \in {<< ".", "s", "v", "g" >>, << ".", "S", "V", "G" >>}}}

Occurrences(s, x) == Cardinality({k \in DOMAIN s : s[k] = x})

\* C17: for each SVG file the converters run in the order rsvg-convert,
\* convert, inkscape and none runs after one has succeeded; the HTML fallback
\* is created only after all three have failed and its file is counted as
\* failed; at the end every SVG file found is in exactly one of the lists
\* success and failed, once, whatever happened to the other files
C17_ConversionOrder ==
    /\ \A file \in SvgEntries :
          LET r == RunsOf(file)
          IN  /\ Len(r) <= 3
              /\ \A k \in DOMAIN r :
                    /\ r[k].converter = << "rsvg-convert", "convert", "inkscape" >>[k]
                    /\ r[k].ok => k = Len(r)
              /\ file \in conv.html =>
                    /\ Len(r) = 3 /\ \A k \in DOMAIN r : ~r[k].ok
                    /\ Occurrences(conv.failed, file) = 1
              /\ Occurrences(conv.success, file) = 1 <=>
                    (r # <<>> /\ r[Len(r)].ok)
    /\ \A k \in DOMAIN conv.runs : conv.runs[k].file \in SvgEntries
    /\ (conv.pc = "done" /\ conv.inputDirExists) =>
          /\ \A file \in SvgEntries :
                Occurrences(conv.success, file) + Occurrences(conv.failed, file) = 1
          /\ Len(conv.success) + Len(conv.failed) = Cardinality(SvgEntries)
          /\ SvgEntries # {} =>
                conv.summary = <<Len(conv.success), Len(conv.failed)>>

\* the run is over: the first SVG file failed in all three converters and got
\* its HTML fallback, the second one was converted by the second converter
C17_Witness ==
    /\ conv.pc = "done"
    /\ Len(conv.failed) = 1 /\ Len(conv.success) = 1
    /\ conv.failed[1] = conv.svgFiles[1]
    /\ conv.failed[1] \in conv.html
    /\ Len(RunsOf(conv.success[1])) = 2

----------------------------------------------------------------------------
(* Properties of generateMap (SpecMap) *)

\* C18: generateMap never rejects: when the map SVG is written it resolves with
\* isError false and metadata.localPath the file:// URL of the written file;
\* on any failure (creating the directory, building the SVG, writing the file)
\* it resolves with isError true and the error message in content and
\* metadata, and no localPath
C18_MapNeverRejects ==
    \A i \in DOMAIN calls :
        LET e == calls[i]
        IN  /\ e.outcome = "resolved"
            /\ IF e.written
               THEN /\ e.value.isError = FALSE
                    /\ e.value.metadata.localPath =
                          [scheme |-> "file://",
                           path |-> [dir |-> << "/", "app", "generated-charts" >>,
                                     file |-> [type |-> e.call.tool,
                                               timestamp |-> e.call.timestamp,
                                               suffix |-> ".svg"]]]
               ELSE /\ e.value.isError = TRUE
                    /\ "localPath" \notin DOMAIN e.value.metadata
                    /\ "error" \in DOMAIN e.value.metadata
                    /\ e.value.content[1].text[2] = e.value.metadata.error

----------------------------------------------------------------------------
(* Order of categories and groups of the column chart (SpecColumn) *)

\* the index of the first point of data whose field has the value v
FirstIndex(data, field, v) ==
    CHOOSE k \in DOMAIN data :
        /\ data[k].f[field] = v
        /\ \A m \in DOMAIN data : data[m].f[field] = v => k <= m

\* the k-th distinct value of the field, by first appearance
KthSeen(data, field, k) ==
    CHOOSE v \in {data[m].f[field] : m \in DOMAIN data} :
        Cardinality({w \in {data[m].f[field] : m \in DOMAIN data} :
                        FirstIndex(data, field, w) < FirstIndex(data, field, v)})
           = k - 1

\* the value the input gives to (category c, group g): that of the last such
\* point, 0 when there is none
InputCell(data, c, g) ==
    LET ks == {k \in DOMAIN data : data[k].f.category = c /\ data[k].f.group = g}
    IN  IF ks = {} THEN 0
        ELSE RawValue(data[CHOOSE k \in ks : \A m \in ks : m <= k])

InputMax(data) ==
    LET vs == {InputCell(data, c, g) : c \in CategoriesOf(data), g \in GroupsOf(data)}
    IN  CHOOSE v \in vs : \A w \in vs : w <= v

\* the horizontal band, counted from the left, in which the rect lies
BandOf(bar, a, bands) ==
    CHOOSE k \in 1..bands :
        /\ NLe(NAdd(a.x, NMul(Num(k - 1), NDiv(a.width, Num(bands)))), bar.x)
        /\ NLe(NAdd(bar.x, bar.width),
               NAdd(a.x, NMul(Num(k), NDiv(a.width, Num(bands)))))

\* the position of the rect among the rects of its band, from the left
PlaceInBand(bar, bars, a, bands) ==
    1 + Cardinality({m \in DOMAIN bars :
                        /\ BandOf(bars[m], a, bands) = BandOf(bar, a, bands)
                        /\ NLt(bars[m].x, bar.x)})

\* C19: categories and groups are ordered by first appearance in the input:
\* the k-th distinct category seen labels and occupies the k-th horizontal
\* band, the j-th distinct group seen is the j-th bar of every band (its height
\* is that of the group's value in the band's category), and the legend lists
\* the groups in that order with the colour of the group's bars
C19_FirstSeenOrder ==
    \A i \in DOMAIN renders :
        ~renders[i].result.threw =>
           LET data == renders[i].options.data.v
               fragment == Fragment(renders[i].result.value)
               a == ChartArea(Num(800), Num(600))
               bars == WithRole(fragment, "bar")
               labels == WithRole(fragment, "category-label")
               legend == WithRole(fragment, "legend")
               nc == Cardinality(CategoriesOf(data))
               ng == Cardinality(GroupsOf(data))
           IN  /\ Len(labels) = nc
               /\ \A k \in DOMAIN labels :
                     S(labels[k].text) = KthSeen(data, "category", k)
               /\ Len(bars) = nc * ng
               /\ \A m \in DOMAIN bars :
                     LET k == BandOf(bars[m], a, nc)
                         j == PlaceInBand(bars[m], bars, a, nc)
                     IN  /\ \E b \in 1..nc :
                               /\ NLe(NAdd(a.x, NMul(Num(b - 1),
                                         NDiv(a.width, Num(nc)))), bars[m].x)
                               /\ NLe(NAdd(bars[m].x, bars[m].width),
                                      NAdd(a.x, NMul(Num(b),
                                         NDiv(a.width, Num(nc)))))
                         /\ j \in 1..ng
                         /\ bars[m].fill = ColumnColors[j]
                         /\ bars[m].height =
                               NMul(NDiv(Num(InputCell(data,
                                                KthSeen(data, "category", k),
                                                KthSeen(data, "group", j))),
                                         Num(InputMax(data))),
                                    a.height)
               /\ ng > 1 =>
                     /\ Len(legend) = 2 * ng
                     /\ \A j \in 1..ng :
                           /\ legend[2 * j - 1].el = "rect"
                           /\ legend[2 * j - 1].fill = ColumnColors[j]
                           /\ legend[2 * j].el = "text"
                           /\ S(legend[2 * j].text) = KthSeen(data, "group", j)

\* a chart has been drawn of input that names Q2 before Q1 and Cost before Rev
C19_Witness ==
    \E i \in DOMAIN renders :
        /\ ~renders[i].result.threw
        /\ renders[i].options.data.v
              = <<ColumnPoint("Q2", "Cost", 20), ColumnPoint("Q1", "Rev", 10),
                  ColumnPoint("Q2", "Rev", 10)>>
        /\ Len(WithRole(Fragment(renders[i].result.value), "bar")) = 4
        /\ Len(LegendTexts(Fragment(renders[i].result.value))) = 2

----------------------------------------------------------------------------
(* Points the column chart takes part of (SpecRender) *)

\* the point has a category and a numeric value
Qualifies(item) ==
    /\ item.t = "object"
    /\ Truthy(Get(item, "category"))
    /\ Get(item, "value").t = "number"

QualifyingCategories(data) ==
    {StringOf(Get(data[k], "category")) : k \in {m \in DOMAIN data : Qualifies(data[m])}}

QualifyingGroups(data) ==
    {IF Truthy(Get(data[k], "group")) THEN Get(data[k], "group") ELSE S("Series 1") :
        k \in {m \in DOMAIN data : Qualifies(data[m])}}

\* C20: only points with both a category and a numeric value take part in the
\* column chart: the category labels are the categories of those points, there
\* is one bar per (category, group) of those points, and a point whose value
\* is not numeric does not affect the scaling (every bar has a height that is
\* a number)
C20_OnlyNumericPoints ==
    \A i \in DOMAIN renders :
        (/\ renders[i].engine = "generateColumnChart"
         /\ ~renders[i].result.threw
         /\ IsArray(renders[i].options.data)
         /\ renders[i].options.data.v # <<>>) =>
           LET data == renders[i].options.data.v
               fragment == Fragment(renders[i].result.value)
               bars == WithRole(fragment, "bar")
               labels == WithRole(fragment, "category-label")
           IN  /\ {labels[k].text : k \in DOMAIN labels} = QualifyingCategories(data)
               /\ Len(bars) = Cardinality(QualifyingCategories(data))
                                 * Cardinality(QualifyingGroups(data))
               /\ \A m \in DOMAIN bars : ~IsNaN(bars[m].height)

----------------------------------------------------------------------------
(* Items the histogram drops (SpecRender) *)

\* the numbers of the items that yield one, in input order
NumericValues(data) ==
    SeqMap(LAMBDA item : IF item.t = "number" THEN item.v ELSE item.f.value.v,
           SelectSeq(data, IsNumeric))

\* C21: the histogram drops every item that does not yield a number: when no
\* item yields one the fragment is the "No valid numeric data" placeholder;
\* otherwise no more items are counted in the bins than yield a number, and
\* the first bin starts at the minimum of the numbers the items yield
C21_NonNumericDropped ==
    \A i \in DOMAIN renders :
        (/\ renders[i].engine = "generateHistogramChart"
         /\ ~renders[i].result.threw
         /\ IsArray(renders[i].options.data)
         /\ renders[i].options.data.v # <<>>) =>
           LET data == renders[i].options.data.v
               fragment == Fragment(renders[i].result.value)
               bars == WithRole(fragment, "bar")
               first == SelectSeq(fragment,
                           LAMBDA el : el.role = "bin-label" /\ el.index = 0)
           IN  IF NumericCount(data) = 0
               THEN fragment =
                       <<TextEl("placeholder", "axis-label", "No valid numeric data")>>
               ELSE /\ SumFrequencies(bars) <= NumericCount(data)
                    /\ Len(first) = 1
                    /\ first[1].text = Fixed1(MathMin(NumericValues(data)))

----------------------------------------------------------------------------
(* Axis domains of the dual-axes chart (SpecDual) *)

\* the bar series and the line series the request carries
InputSeries(options, kind) ==
    IF options.series # Undef
    THEN options.series.v[IF kind = "bar" THEN 1 ELSE 2].f.data.v
    ELSE SeqMap(LAMBDA item : item.f[kind].v, options.data.v)

\* C22: the left axis spans [0, max(barSeries)] and the right axis
\* [0, max(lineSeries)], also when the maximum is below 1: tick i of the left
\* axis shows i * max/5 rounded to an integer, tick i of the right axis shows
\* i * max/5 with two decimals, and a bar or point whose value is the maximum
\* of its series reaches the top of the canvas area
C22_AxisDomains ==
    \A i \in DOMAIN renders :
        ~renders[i].result.threw =>
           LET fragment == Fragment(renders[i].result.value)
               a == ChartArea(Num(800), Num(600))
               maxBar == MathMax(InputSeries(renders[i].options, "bar"))
               maxLine == MathMax(InputSeries(renders[i].options, "line"))
               left == WithRole(fragment, "left-tick")
               right == WithRole(fragment, "right-tick")
               bars == WithRole(fragment, "bar")
               points == WithRole(fragment, "line-point")
           IN  /\ NGt(maxBar, Num(0)) =>
                     /\ \A k \in DOMAIN left :
                           left[k].text =
                              MathRound(NMul(NDiv(maxBar, Num(5)), Num(left[k].index)))
                     /\ \A k \in DOMAIN bars :
                           InputSeries(renders[i].options, "bar")[bars[k].index + 1]
                              = maxBar => bars[k].y = a.y
               /\ NGt(maxLine, Num(0)) =>
                     /\ \A k \in DOMAIN right :
                           right[k].text =
                              Fixed2(NMul(NDiv(maxLine, Num(5)), Num(right[k].index)))
                     /\ \A k \in DOMAIN points :
                           InputSeries(renders[i].options, "line")[points[k].index + 1]
                              = maxLine => points[k].cy = a.y

----------------------------------------------------------------------------
(* Divisors of the histogram engine (SpecHistogram) *)

\* C23: every maximum or range an engine divides by is replaced by 1 when it
\* is zero: in the histogram neither the bin width, by which
\* (value - minValue) is divided, nor the maximum frequency, by which each
\* frequency is divided, is zero when bars are drawn
C23_ZeroSafeDivisors ==
    \A i \in DOMAIN renders :
        LET values == HistogramValues(renders[i].options.data.v)
            b == BinCount(renders[i].options)
            bars == WithRole(Fragment(renders[i].result.value), "bar")
        IN  (~renders[i].result.threw /\ bars # <<>>) =>
               /\ BinWidth(values, b.n) # Num(0)
               /\ IMax(IntMax(Histogram(values, b.n)), 1) # 0

----------------------------------------------------------------------------
(* Layout of the line chart (SpecLine) *)

\* ceil(n / 8): the least c with 8 * c >= n
LabelStep(n) == CHOOSE c \in 1 .. n : 8 * c >= n /\ \A e \in 1 .. n : 8 * e >= n => c <= e

\* C24: a line chart of n >= 1 points has one marker and one value label per
\* point, point i at x = left edge + i / max(n - 1, 1) of the canvas width;
\* the axis label is emitted exactly for the indices divisible by ceil(n / 8),
\* so index 0 is labelled and there are at most 8 axis labels
C24_LineLayout ==
    \A i \in DOMAIN renders :
        (renders[i].engine = "generateLineChart" /\ ~renders[i].result.threw) =>
           LET n == Len(renders[i].options.data.v)
               fragment == Fragment(renders[i].result.value)
               a == ChartArea(Num(800), Num(600))
               markers == WithRole(fragment, "marker")
               values == WithRole(fragment, "value-label")
               labels == WithRole(fragment, "axis-label")
           IN  /\ Len(markers) = n
               /\ \A k \in DOMAIN markers :
                     /\ markers[k].index = k - 1
                     /\ markers[k].cx =
                           NAdd(a.x, NMul(Fin(k - 1, IF n > 1 THEN n - 1 ELSE 1),
                                          a.width))
               /\ Len(values) = n
               /\ \A k \in DOMAIN values : values[k].index = k - 1
               /\ {labels[k].index : k \in DOMAIN labels}
                     = {x \in 0 .. n - 1 : x % LabelStep(n) = 0}
               /\ Cardinality({labels[k].index : k \in DOMAIN labels}) = Len(labels)
               /\ \E k \in DOMAIN labels : labels[k].index = 0
               /\ Len(labels) <= 8

\* a line chart of nine points has been drawn with five axis labels
C24_Witness ==
    \E i \in DOMAIN renders :
        /\ renders[i].engine = "generateLineChart"
        /\ ~renders[i].result.threw
        /\ Len(renders[i].options.data.v) = 9
        /\ Len(WithRole(Fragment(renders[i].result.value), "axis-label")) = 5

----------------------------------------------------------------------------
(* Fill path of the area chart (SpecLine) *)

\* C25: for the same input the area engine computes the point sequence of the
\* line engine, and its fill path starts on the baseline directly below the
\* first point, visits every point in input order, returns to the baseline
\* directly below the last point and is closed, for every n >= 1
C25_AreaClosedPath ==
    \A i \in DOMAIN renders :
        (renders[i].engine = "generateAreaChart" /\ ~renders[i].result.threw) =>
           LET n == Len(renders[i].options.data.v)
               fragment == Fragment(renders[i].result.value)
               a == ChartArea(Num(800), Num(600))
               baseline == NAdd(a.y, a.height)
               area == WithRole(fragment, "area")[1].d
               line == WithRole(fragment, "line")[1].d
               asLine == WithRole(generateLineChart(renders[i].options.data,
                                     Num(800), Num(600), renders[i].options).value,
                                  "line")[1].d
           IN  /\ line = asLine
               /\ Len(area) = n + 3
               /\ area[1] = [cmd |-> "M", x |-> line[1].x, y |-> baseline]
               /\ \A k \in 1 .. n :
                     area[k + 1] = [cmd |-> "L", x |-> line[k].x, y |-> line[k].y]
               /\ area[n + 2] = [cmd |-> "L", x |-> line[n].x, y |-> baseline]
               /\ area[n + 3] = [cmd |-> "Z"]

----------------------------------------------------------------------------
(* Order of the elements of a fragment (SpecRender) *)

DataShapes == {"bar", "slice", "polygon", "line", "line-point"}
AxisParts == {"axis", "axis-title"}

\* C26: in the fragment of the column, pie, radar and dual-axes engines the
\* legend elements come first, then the data shapes, then the axes and axis
\* titles: no legend element follows a data shape and no data shape follows
\* an axis
C26_EmissionOrder ==
    \A i \in DOMAIN renders :
        (/\ renders[i].engine \in {"generateColumnChart", "generatePieChart",
                                   "generateRadarChart", "generateDualAxesChart"}
         /\ ~renders[i].result.threw) =>
           LET fragment == Fragment(renders[i].result.value)
           IN  \A j, k \in DOMAIN fragment :
                  j < k =>
                     /\ ~(fragment[j].role \in DataShapes /\ fragment[k].role = "legend")
                     /\ ~(fragment[j].role \in AxisParts /\ fragment[k].role \in DataShapes)
                     /\ ~(fragment[j].role \in AxisParts /\ fragment[k].role = "legend")

----------------------------------------------------------------------------
(* Style rules against inline colours (SpecRender) *)

\* C27: no rule of the embedded style block sets a colour property (fill or
\* stroke) that an element carrying the rule's class also sets as an inline
\* attribute
C27_NoColourOverride ==
    \A i \in DOMAIN renders :
        ~renders[i].result.threw =>
           LET doc == renders[i].result.value
               rules == doc[3].rules
           IN  \A k \in DOMAIN doc :
                  ("class" \in DOMAIN doc[k] /\ doc[k].class \in DOMAIN rules) =>
                     \A p \in {"fill", "stroke"} :
                        p \in DOMAIN doc[k] => p \notin rules[doc[k].class]

----------------------------------------------------------------------------
(* Pies of positive, zero and negative values (SpecPie) *)

\* C28: for every input whose total is > 0, also one that mixes positive
\* values with zero or negative ones, the angles of the slices drawn sum to
\* one full circle, every displayed percentage is at most 100, and a point of
\* value <= 0 has neither a slice nor a legend entry
C28_PieMixedSigns ==
    \A i \in DOMAIN renders :
        LET data == renders[i].options.data.v
        IN  (SumRaw(data) > 0 /\ ~renders[i].result.threw) =>
               LET fragment == Fragment(renders[i].result.value)
                   slices == WithRole(fragment, "slice")
                   shown == WithRole(fragment, "percentage")
                   legend == WithRole(fragment, "legend")
               IN  /\ SumAngles(slices) = FullCircle
                   /\ \A k \in DOMAIN shown : NLe(shown[k].text, Num(100))
                   /\ {slices[k].index : k \in DOMAIN slices}
                         = {k - 1 : k \in {m \in DOMAIN data : RawValue(data[m]) > 0}}
                   /\ {legend[k].index : k \in DOMAIN legend}
                         = {k - 1 : k \in {m \in DOMAIN data : RawValue(data[m]) > 0}}

----------------------------------------------------------------------------
(* Location of the written files (SpecPersist) *)

\* C29: every file generateChartUrl or generateMap writes lies inside the
\* configured output directory (CHART_OUTPUT_DIR, else ./generated-charts),
\* whatever type or tool string is passed, and the directory exists before
\* the first write
C29_WritesInsideOutputDir ==
    \A i \in DOMAIN calls :
        \A p \in calls[i].written :
            LET configured == IF cli.env.CHART_OUTPUT_DIR = <<>>
                              THEN <<"generated-charts">>
                              ELSE cli.env.CHART_OUTPUT_DIR
            IN  /\ Len(p.dir) >= Len(configured)
                /\ SubSeq(p.dir, 1, Len(configured)) = configured
                /\ calls[i].dirExisted
                /\ p \in DOMAIN fs

----------------------------------------------------------------------------
(* Repeated (category, group) pairs of the column chart (SpecColumn) *)

\* point k is followed by a point of the same category and group
Superseded(data, k) ==
    \E m \in DOMAIN data :
        /\ m > k
        /\ data[m].f.category = data[k].f.category
        /\ data[m].f.group = data[k].f.group

\* the inputs that differ from data only in the values of superseded points
SupersededVariants(data) ==
    {d \in [DOMAIN data -> ColumnItems] :
        \A k \in DOMAIN data :
            /\ d[k].f.category = data[k].f.category
            /\ d[k].f.group = data[k].f.group
            /\ ~Superseded(data, k) => d[k] = data[k]}

\* C30: the fragment has exactly C x G bar rects for C distinct categories and
\* G distinct groups, one per (category, group) pair, whatever the number of
\* points; a pair that occurs more than once shows the value of its last
\* occurrence, and the earlier occurrences change neither a bar nor the scale
C30_LastOccurrenceWins ==
    \A i \in DOMAIN renders :
        ~renders[i].result.threw =>
           LET data == renders[i].options.data.v
               fragment == Fragment(renders[i].result.value)
               a == ChartArea(Num(800), Num(600))
               bars == WithRole(fragment, "bar")
               nc == Cardinality(CategoriesOf(data))
               ng == Cardinality(GroupsOf(data))
               place(m) == <<BandOf(bars[m], a, nc), PlaceInBand(bars[m], bars, a, nc)>>
           IN  /\ Len(bars) = nc * ng
               /\ {place(m) : m \in DOMAIN bars} = (1 .. nc) \X (1 .. ng)
               /\ \A m \in DOMAIN bars :
                     bars[m].height =
                        NMul(NDiv(Num(InputCell(data,
                                         KthSeen(data, "category", place(m)[1]),
                                         KthSeen(data, "group", place(m)[2]))),
                                  Num(InputMax(data))),
                             a.height)
               /\ \A d \in SupersededVariants(data) :
                     generateColumnChart(Arr(d), Num(800), Num(600),
                                         renders[i].options).value = fragment

\* a chart has been drawn of Q1/Rev given twice, 20 and then 10, beside
\* Q2/Rev/20: the bar of Q1 has half the height of the bar of Q2
C30_Witness ==
    \E i \in DOMAIN renders :
        /\ ~renders[i].result.threw
        /\ renders[i].options.data.v
              = <<ColumnPoint("Q1", "Rev", 20), ColumnPoint("Q1", "Rev", 10),
                  ColumnPoint("Q2", "Rev", 20)>>
        /\ LET bars == WithRole(Fragment(renders[i].result.value), "bar")
           IN  /\ Len(bars) = 2
               /\ bars[1].height = Num(230)
               /\ bars[2].height = Num(460)

====
